---- MODULE Spec2Model ----
(***************************************************************************)
(* gsparse: the grid model (Cell, Range, Worksheet, Spreadsheet), the      *)
(* value cleaner of BaseParser, and the CSV and XLSX normalizers.          *)
(*                                                                         *)
(* Strings are sequences of one-character strings.  A Python value is a   *)
(* record [t, s, n]: t is its type, s its characters (str) or its repr     *)
(* (float), n its integer (int, bool).  An operation that may raise        *)
(* returns a record with ok = FALSE and the exception's type in err.       *)
(***************************************************************************)
EXTENDS Integers, Sequences, FiniteSets, TLC

VARIABLES
    call,   \* the last completed call: [op, args, ret]
    sheet,  \* the Worksheet object the accessors are called on
    book    \* the Spreadsheet object add_worksheet / remove_worksheet mutate

vars == <<call, sheet, book>>

\* ------------------------------------------------------------------ bounds
MaxLetters == 2     \* column letter strings of 1..MaxLetters letters
MaxColumn == 710    \* column numbers 1..MaxColumn (703 is AAA)
MaxCoord == 3       \* Range constructor arguments are drawn from -1..MaxCoord
MaxAddrLen == 5     \* address strings given to from_address
MaxCellLen == 4     \* cell address strings given to _parse_cell_address
MaxRow == 11        \* rows of the Ranges that are serialized and parsed back
MaxNameLen == 2     \* worksheet names of those Ranges
MaxStrLen == 4      \* strings given to the value cleaner
MaxCsvLen == 4      \* bytes given to CSVParser.parse
MaxSampleLen == 6   \* bytes given to CSVParser.detect_delimiter
MaxXlsxRows == 2    \* rows of a sheet of a workbook
MaxXlsxCols == 2    \* cells of a row of a sheet of a workbook
MaxXlsxCells == 3   \* cells of a sheet of a workbook
MaxGridRows == 2    \* stored rows of a Worksheet that is cleaned up
MaxGridCols == 2    \* cells of a stored row of such a Worksheet
MaxGridCells == 3   \* cells of such a Worksheet
MaxQueryRows == 3   \* stored rows of a Worksheet that is queried
MaxQueryCols == 2   \* cells of a stored row of such a Worksheet
MaxQueryCells == 4  \* cells of such a Worksheet
MaxRows == 2        \* stored rows of a Worksheet, and its declared row_count
MaxCols == 2        \* cells of a stored row, and the declared column_count
MaxInitSheets == 2  \* worksheets a Spreadsheet is constructed with
MaxSheets == 3      \* add_worksheet is called while the Spreadsheet has fewer

\* ------------------------------------------------------------ Python values
None == [t |-> "none", s |-> <<>>, n |-> 0]
PyStr(chars) == [t |-> "str", s |-> chars, n |-> 0]
PyInt(k) == [t |-> "int", s |-> <<>>, n |-> k]
PyBool(b) == [t |-> "bool", s |-> <<>>, n |-> IF b THEN 1 ELSE 0]
PyFloat(k, repr) == [t |-> "float", s |-> repr, n |-> k]
PyDatetime == [t |-> "datetime", s |-> <<>>, n |-> 0]

Raise(type, message) == [ok |-> FALSE, err |-> type, msg |-> message]
Return(value) == [ok |-> TRUE, val |-> value]

Idle == [op |-> "idle"]
NoSheet == [name |-> <<>>, data |-> <<>>, row_count |-> 0, column_count |-> 0]
NoBook == [constructed |-> FALSE]

\* --------------------------------------------------------------- characters
UpperLetters ==
    << "A", "B", "C", "D", "E", "F", "G", "H", "I", "J", "K", "L", "M",
       "N", "O", "P", "Q", "R", "S", "T", "U", "V", "W", "X", "Y", "Z" >>
LowerLetters ==
    << "a", "b", "c", "d", "e", "f", "g", "h", "i", "j", "k", "l", "m",
       "n", "o", "p", "q", "r", "s", "t", "u", "v", "w", "x", "y", "z" >>
Digits == << "0", "1", "2", "3", "4", "5", "6", "7", "8", "9" >>

Range1(f) == {f[i] : i \in DOMAIN f}
IsUpper(c) == c \in Range1(UpperLetters)
IsLower(c) == c \in Range1(LowerLetters)
IsDigit(c) == c \in Range1(Digits)

\* chr(code) and ord(char) on A..Z (65..90)
chr(code) == UpperLetters[code - 64]
ord(c) == 64 + (CHOOSE i \in DOMAIN UpperLetters : UpperLetters[i] = c)
\* the value of one decimal digit
DigitValue(c) == (CHOOSE i \in DOMAIN Digits : Digits[i] = c) - 1

\* str.upper() on one character and on a string
UpperChar(c) ==
    IF IsLower(c)
    THEN UpperLetters[CHOOSE i \in DOMAIN LowerLetters : LowerLetters[i] = c]
    ELSE c
upper(s) == [i \in DOMAIN s |-> UpperChar(s[i])]

\* sep in s, s.find(sep) for a one-character sep (0 when absent, else 1-based)
Contains(s, c) == \E i \in DOMAIN s : s[i] = c
Find(s, c) == IF Contains(s, c) THEN CHOOSE i \in DOMAIN s : s[i] = c /\ \A j \in 1..(i - 1) : s[j] # c ELSE 0
\* s.split(sep, 1) when sep is in s: the text before and after its first occurrence
SplitOnce(s, c) == << SubSeq(s, 1, Find(s, c) - 1), SubSeq(s, Find(s, c) + 1, Len(s)) >>

\* all sequences over S of length lo..hi
SeqsOf(S, lo, hi) == UNION {[1..k -> S] : k \in lo..hi}

\* str(n) of an integer: its decimal digits, with a minus sign when negative
RECURSIVE NatToStr(_)
NatToStr(n) ==
    IF n < 10 THEN << Digits[n + 1] >>
    ELSE NatToStr(n \div 10) \o << Digits[(n % 10) + 1] >>
IntToStr(n) == IF n < 0 THEN << "-" >> \o NatToStr(0 - n) ELSE NatToStr(n)

\* int(s) of a run of decimal digits
RECURSIVE DigitsToNat(_, _)
DigitsToNat(s, acc) ==
    IF s = <<>> THEN acc
    ELSE DigitsToNat(Tail(s), acc * 10 + DigitValue(Head(s)))

\* ------------------------------------------------------------ Address codec
\* Cell._number_to_column_letter / Range._number_to_column_letter (same body)
RECURSIVE number_to_column_letter_loop(_, _)
number_to_column_letter_loop(col_num, result) ==
    IF col_num > 0
    THEN LET c == col_num - 1
         IN number_to_column_letter_loop(c \div 26, << chr(65 + (c % 26)) >> \o result)
    ELSE result
\* a variant that drops the decrement before the first digit is taken
number_to_column_letter_off_by_one(col_num) == number_to_column_letter_loop(col_num + 1, <<>>)
_number_to_column_letter(col_num) == number_to_column_letter_loop(col_num, <<>>)

\* the length of the run of letters A-Z, and of digits, that starts at position i of s
RECURSIVE LetterRun(_, _)
LetterRun(s, i) == IF i <= Len(s) /\ IsUpper(s[i]) THEN 1 + LetterRun(s, i + 1) ELSE 0
RECURSIVE DigitRun(_, _)
DigitRun(s, i) == IF i <= Len(s) /\ IsDigit(s[i]) THEN 1 + DigitRun(s, i + 1) ELSE 0

\* the letter accumulation of Range._parse_cell_address
RECURSIVE letters_to_number(_, _)
letters_to_number(col_letters, col_num) ==
    IF col_letters = <<>> THEN col_num
    ELSE letters_to_number(Tail(col_letters), col_num * 26 + (ord(Head(col_letters)) - ord("A") + 1))

\* a variant that matches the whole string (re.fullmatch)
parse_cell_address_fullmatch(cell_address) ==
    LET u == upper(cell_address)
        nl == LetterRun(u, 1)
        nd == DigitRun(u, nl + 1)
    IN  IF nl = 0 \/ nd = 0 \/ nl + nd # Len(u)
        THEN Raise("ValueError", "Invalid cell address format")
        ELSE Return([row |-> DigitsToNat(SubSeq(u, nl + 1, nl + nd), 0),
                     col |-> letters_to_number(SubSeq(u, 1, nl), 0)])

\* Range._parse_cell_address: re.match(r'([A-Z]+)(\d+)', cell_address.upper()),
\* a match anchored at the start of the string only
_parse_cell_address(cell_address) ==
    LET u == upper(cell_address)
        nl == LetterRun(u, 1)
        nd == DigitRun(u, nl + 1)
    IN  IF nl = 0 \/ nd = 0
        THEN Raise("ValueError", "Invalid cell address format")
        ELSE Return([row |-> DigitsToNat(SubSeq(u, nl + 1, nl + nd), 0),
                     col |-> letters_to_number(SubSeq(u, 1, nl), 0)])
\* -------------------------------------------------------------------- Range
\* a variant whose validation forgets the column order
RangeNoColumnOrder(start_row, end_row, start_column, end_column, worksheet_name) ==
    IF start_row < 1 \/ end_row < 1
    THEN Raise("ValueError", "Row numbers must be greater than 0")
    ELSE IF start_column < 1 \/ end_column < 1
    THEN Raise("ValueError", "Column numbers must be greater than 0")
    ELSE IF start_row > end_row
    THEN Raise("ValueError", "Start row cannot be greater than end row")
    ELSE Return([start_row |-> start_row, end_row |-> end_row,
                 start_column |-> start_column, end_column |-> end_column,
                 worksheet_name |-> worksheet_name])

\* Range.__init__ + Range.__post_init__: the dataclass with its validation
Range(start_row, end_row, start_column, end_column, worksheet_name) ==
    IF start_row < 1 \/ end_row < 1
    THEN Raise("ValueError", "Row numbers must be greater than 0")
    ELSE IF start_column < 1 \/ end_column < 1
    THEN Raise("ValueError", "Column numbers must be greater than 0")
    ELSE IF start_row > end_row
    THEN Raise("ValueError", "Start row cannot be greater than end row")
    ELSE IF start_column > end_column
    THEN Raise("ValueError", "Start column cannot be greater than end column")
    ELSE Return([start_row |-> start_row, end_row |-> end_row,
                 start_column |-> start_column, end_column |-> end_column,
                 worksheet_name |-> worksheet_name])

\* bool(value)
Truthy(value) ==
    CASE value.t = "none" -> FALSE
      [] value.t = "str" -> value.s # <<>>
      [] value.t = "datetime" -> TRUE
      [] OTHER -> value.n # 0

\* a variant that writes the start row in the end cell
address_start_row_twice(r) ==
    LET start_cell == _number_to_column_letter(r.start_column) \o IntToStr(r.start_row)
        end_cell == _number_to_column_letter(r.end_column) \o IntToStr(r.start_row)
    IN  IF Truthy(r.worksheet_name)
        THEN r.worksheet_name.s \o << "!" >> \o start_cell \o << ":" >> \o end_cell
        ELSE start_cell \o << ":" >> \o end_cell

\* Range.address
address(r) ==
    LET start_cell == _number_to_column_letter(r.start_column) \o IntToStr(r.start_row)
        end_cell == _number_to_column_letter(r.end_column) \o IntToStr(r.end_row)
    IN  IF Truthy(r.worksheet_name)
        THEN r.worksheet_name.s \o << "!" >> \o start_cell \o << ":" >> \o end_cell
        ELSE start_cell \o << ":" >> \o end_cell

\* Range.from_address, first half: the worksheet name and the two cell parts
AddressParts(addr) ==
    LET named == Contains(addr, "!")
        range_part == IF named THEN SplitOnce(addr, "!")[2] ELSE addr
        ranged == Contains(range_part, ":")
    IN  [worksheet_name |-> IF named THEN PyStr(SplitOnce(addr, "!")[1]) ELSE None,
         start_cell |-> IF ranged THEN SplitOnce(range_part, ":")[1] ELSE range_part,
         end_cell |-> IF ranged THEN SplitOnce(range_part, ":")[2] ELSE range_part,
         single |-> ~ranged]

\* Range.from_address
from_address(addr) ==
    LET parts == AddressParts(addr)
        start == _parse_cell_address(parts.start_cell)
        end == _parse_cell_address(parts.end_cell)
    IN  IF ~start.ok THEN start
        ELSE IF ~end.ok THEN end
        ELSE Range(start.val.row, end.val.row, start.val.col, end.val.col,
                   parts.worksheet_name)

\* ------------------------------------------------------------------ strings
\* the whitespace str.strip() removes, among the characters of the model
Whitespace == {" ", "\t", "\n", "\r"}
RECURSIVE lstrip(_)
lstrip(s) == IF s # <<>> /\ Head(s) \in Whitespace THEN lstrip(Tail(s)) ELSE s
RECURSIVE rstrip(_)
rstrip(s) ==
    IF s # <<>> /\ s[Len(s)] \in Whitespace THEN rstrip(SubSeq(s, 1, Len(s) - 1)) ELSE s
strip(s) == rstrip(lstrip(s))

\* --------------------------------------------------------------------- Cell
\* Cell.__init__ + Cell.__post_init__
Cell(row, column, value) ==
    IF row < 1 THEN Raise("ValueError", "Row number must be greater than 0")
    ELSE IF column < 1 THEN Raise("ValueError", "Column number must be greater than 0")
    ELSE Return([row |-> row, column |-> column, value |-> value,
                 formatted_value |-> None, formula |-> None])

\* ---------------------------------------------------------------- Worksheet
\* Worksheet.__init__ + Worksheet.__post_init__
Worksheet(name, data, row_count, column_count) ==
    IF strip(name) = <<>>
    THEN Raise("ValueError", "Worksheet name cannot be empty")
    ELSE IF row_count < 0 \/ column_count < 0
    THEN Raise("ValueError", "Row and column counts must be non-negative")
    ELSE Return([name |-> name, data |-> data,
                 row_count |-> row_count, column_count |-> column_count])

\* Worksheet._is_valid_row, _is_valid_column, _is_valid_coordinates
_is_valid_row(ws, row) == 1 <= row /\ row <= ws.row_count
_is_valid_column(ws, column) == 1 <= column /\ column <= ws.column_count
_is_valid_coordinates(ws, row, column) == _is_valid_row(ws, row) /\ _is_valid_column(ws, column)

\* Worksheet.get_cell: self.data[row - 1][column - 1] raises IndexError when the
\* stored rows do not reach the coordinates
get_cell(ws, row, column) ==
    IF ~_is_valid_coordinates(ws, row, column) THEN Return(None)
    ELSE IF ws.data = <<>> THEN Cell(row, column, None)
    ELSE IF row > Len(ws.data) \/ column > Len(ws.data[row])
    THEN Raise("IndexError", "list index out of range")
    ELSE Cell(row, column, ws.data[row][column])

\* -------------------------------------------------------------- Spreadsheet
\* Spreadsheet.__init__ + Spreadsheet.__post_init__
Spreadsheet(title, worksheets, url) ==
    IF strip(title) = <<>>
    THEN Raise("ValueError", "Spreadsheet title cannot be empty")
    ELSE IF worksheets = <<>>
    THEN Raise("ValueError", "Spreadsheet must contain at least one worksheet")
    ELSE Return([constructed |-> TRUE, title |-> title, worksheets |-> worksheets,
                 url |-> url])

\* the index of the first worksheet called name, 0 when there is none
FirstNamed(worksheets, name) ==
    IF \E i \in DOMAIN worksheets : worksheets[i].name = name
    THEN CHOOSE i \in DOMAIN worksheets :
             /\ worksheets[i].name = name
             /\ \A j \in 1..(i - 1) : worksheets[j].name # name
    ELSE 0

\* Spreadsheet.get_worksheet: the first worksheet of that name, or None
get_worksheet(b, name) ==
    IF FirstNamed(b.worksheets, name) = 0 THEN None
    ELSE b.worksheets[FirstNamed(b.worksheets, name)]

\* a variant that appends without looking for the name
add_worksheet_unchecked(b, worksheet) ==
    [ret |-> Return(None),
     book |-> [b EXCEPT !.worksheets = Append(b.worksheets, worksheet)]]

\* Spreadsheet.add_worksheet: the result and the Spreadsheet after the call
add_worksheet(b, worksheet) ==
    IF get_worksheet(b, worksheet.name) # None
    THEN [ret |-> Raise("ValueError", "worksheet name already exists"), book |-> b]
    ELSE [ret |-> Return(None),
          book |-> [b EXCEPT !.worksheets = Append(b.worksheets, worksheet)]]

\* Spreadsheet.remove_worksheet: deletes the first worksheet of that name
remove_worksheet(b, name) ==
    LET i == FirstNamed(b.worksheets, name)
    IN  IF i = 0 THEN [ret |-> Return(PyBool(FALSE)), book |-> b]
        ELSE [ret |-> Return(PyBool(TRUE)),
              book |-> [b EXCEPT !.worksheets =
                            SubSeq(b.worksheets, 1, i - 1)
                                \o SubSeq(b.worksheets, i + 1, Len(b.worksheets))]]

\* ------------------------------------------------------------ Value cleaner
\* s.replace(old, new) for old of one or two characters and new of one
RECURSIVE replace(_, _, _)
replace(s, old, new) ==
    IF Len(s) < Len(old) THEN s
    ELSE IF SubSeq(s, 1, Len(old)) = old
    THEN new \o replace(SubSeq(s, Len(old) + 1, Len(s)), old, new)
    ELSE << Head(s) >> \o replace(Tail(s), old, new)

\* s.split(sep) for a one-character sep: the list of the parts
RECURSIVE split(_, _)
split(s, sep) ==
    IF ~Contains(s, sep) THEN << s >>
    ELSE << SplitOnce(s, sep)[1] >> \o split(SplitOnce(s, sep)[2], sep)

\* int(s): surrounding whitespace and one sign are accepted, then decimal
\* digits, with single underscores between them; anything else raises ValueError
int(s) ==
    LET u == strip(s)
        signed == u # <<>> /\ Head(u) \in {"-", "+"}
        digits == IF signed THEN Tail(u) ELSE u
        grouped == /\ digits # <<>>
                   /\ \A i \in DOMAIN digits : IsDigit(digits[i]) \/ digits[i] = "_"
                   /\ \A i \in DOMAIN digits :
                         digits[i] = "_" =>
                             /\ i > 1 /\ i < Len(digits)
                             /\ IsDigit(digits[i - 1]) /\ IsDigit(digits[i + 1])
        value == DigitsToNat(SelectSeq(digits, IsDigit), 0)
    IN  IF ~grouped THEN Raise("ValueError", "invalid literal for int()")
        ELSE Return(IF signed /\ Head(u) = "-" THEN 0 - value ELSE value)

\* str(value): a float is held as its repr, a datetime prints as a date
str(value) ==
    CASE value.t = "str" -> value.s
      [] value.t = "int" -> IntToStr(value.n)
      [] value.t = "bool" -> IF value.n = 1 THEN << "T", "r", "u", "e" >>
                             ELSE << "F", "a", "l", "s", "e" >>
      [] value.t = "float" -> value.s
      [] value.t = "datetime" -> << "2", "0", "2", "4", "-", "0", "1", "-", "0", "1" >>
      [] OTHER -> << "N", "o", "n", "e" >>

\* isinstance(value, (int, float)); bool is a subclass of int
IsIntOrFloat(value) == value.t \in {"int", "bool", "float"}

\* the day and month test both date predicates end with
DayMonthInRange(day_part, month_part) ==
    LET day == int(day_part)
        month == int(month_part)
    IN  /\ day.ok
        /\ month.ok
        /\ 1 <= day.val /\ day.val <= 31
        /\ 1 <= month.val /\ month.val <= 12

\* BaseParser._is_potential_date_float
_is_potential_date_float(value) ==
    /\ IsIntOrFloat(value)
    /\ Contains(str(value), ".")
    /\ Len(split(str(value), ".")) = 2
    /\ DayMonthInRange(split(str(value), ".")[1], split(str(value), ".")[2])

\* BaseParser._format_date_float
_format_date_float(value) ==
    LET str_value == str(value)
        parts == split(str_value, ".")
    IN  IF Contains(str_value, ".") /\ Len(parts) = 2
        THEN LET day_part == parts[1]
                 month_part == parts[2]
                 day == int(day_part).val
                 month == int(month_part).val
             IN  IF day >= 28 /\ month = 1 THEN day_part \o << ".", "1", "0" >>
                 ELSE IF day >= 1 /\ day <= 9 /\ month = 1
                 THEN day_part \o << ".", "1", "0" >>
                 ELSE day_part \o << "." >> \o month_part
        ELSE str_value

\* BaseParser._is_potential_date_string
_is_potential_date_string(value) ==
    /\ Contains(value, ",") \/ Contains(value, ".")
    /\ LET separator == IF Contains(value, ",") THEN "," ELSE "."
           parts == split(value, separator)
       IN  /\ Len(parts) = 2
           /\ DayMonthInRange(strip(parts[1]), strip(parts[2]))

\* a variant that leaves the comma
format_date_string_unchanged(value) == value

\* BaseParser._format_date_string
_format_date_string(value) ==
    IF Contains(value, ",") THEN replace(value, << "," >>, << "." >>) ELSE value

\* BaseParser.__init__, CSVParser.__init__, XLSXParser.__init__: the attributes
\* each constructor sets; the two subclasses do not call BaseParser.__init__
BaseParser(preserve_strings) == [preserve_strings |-> preserve_strings]
CSVParser(delimiter, quotechar, encoding) ==
    [delimiter |-> delimiter, quotechar |-> quotechar, encoding |-> encoding]
XLSXParser(data_only) == [data_only |-> data_only]

\* the end of _clean_cell_value: reading self.preserve_strings
PreserveOrReturn(self, value) ==
    IF "preserve_strings" \notin DOMAIN self
    THEN Raise("AttributeError", "object has no attribute 'preserve_strings'")
    ELSE IF self.preserve_strings THEN Return(PyStr(str(value)))
    ELSE Return(value)

\* a variant that tests for the empty string before trimming
clean_cell_value_untrimmed_test(self, value) ==
    IF value = None THEN Return(None)
    ELSE IF value.t = "str"
    THEN LET cleaned == replace(replace(strip(value.s), << "\r", "\n" >>, << "\n" >>),
                                << "\r" >>, << "\n" >>)
         IN  IF value.s = <<>> THEN Return(None)
             ELSE IF _is_potential_date_string(cleaned)
             THEN Return(PyStr(_format_date_string(cleaned)))
             ELSE Return(PyStr(cleaned))
    ELSE IF IsIntOrFloat(value) /\ _is_potential_date_float(value)
    THEN Return(PyStr(_format_date_float(value)))
    ELSE PreserveOrReturn(self, value)

\* BaseParser._clean_cell_value
_clean_cell_value(self, value) ==
    IF value = None THEN Return(None)
    ELSE IF value.t = "str"
    THEN LET cleaned == replace(replace(strip(value.s), << "\r", "\n" >>, << "\n" >>),
                                << "\r" >>, << "\n" >>)
         IN  IF cleaned = <<>> THEN Return(None)
             ELSE IF _is_potential_date_string(cleaned)
             THEN Return(PyStr(_format_date_string(cleaned)))
             ELSE Return(PyStr(cleaned))
    ELSE IF IsIntOrFloat(value) /\ _is_potential_date_float(value)
    THEN Return(PyStr(_format_date_float(value)))
    ELSE PreserveOrReturn(self, value)

\* the value of a hexadecimal digit, -1 for any other character
HexDigitValue(c) ==
    CASE c \in {"0"} -> 0 [] c \in {"1"} -> 1 [] c \in {"2"} -> 2 [] c \in {"3"} -> 3
      [] c \in {"4"} -> 4 [] c \in {"5"} -> 5 [] c \in {"6"} -> 6 [] c \in {"7"} -> 7
      [] c \in {"8"} -> 8 [] c \in {"9"} -> 9 [] c \in {"a", "A"} -> 10
      [] c \in {"b", "B"} -> 11 [] c \in {"c", "C"} -> 12 [] c \in {"d", "D"} -> 13
      [] c \in {"e", "E"} -> 14 [] c \in {"f", "F"} -> 15 [] OTHER -> -1
RECURSIVE HexValue(_)
HexValue(digits) ==
    IF digits = <<>> THEN 0
    ELSE 16 * HexValue(SubSeq(digits, 1, Len(digits) - 1))
         + HexDigitValue(digits[Len(digits)])

\* the character of a code point; those the model does not tell apart are U+
CodePointChar(n) ==
    CASE n = 13 -> "\r"
      [] n = 32 -> " "
      [] n = 65 -> "A"
      [] n = 1048 -> "U+0418"
      [] OTHER -> "U+"

\* the length of the escape that r'\\U[0-9a-fA-F]{8}|\\u[0-9a-fA-F]{4}' matches
\* at position i of text, 0 when it matches none there
EscapeAt(text, i) ==
    LET hex(k) == /\ i + 1 + k <= Len(text)
                  /\ \A j \in (i + 2)..(i + 1 + k) : HexDigitValue(text[j]) >= 0
    IN  IF i + 1 > Len(text) \/ text[i] # "\\" THEN 0
        ELSE IF text[i + 1] = "U" /\ hex(8) THEN 10
        ELSE IF text[i + 1] = "u" /\ hex(4) THEN 6
        ELSE 0

\* replace_unicode_escape: escape_seq.encode().decode('unicode_escape') fails
\* beyond U+10FFFF, and the escape is then returned as it is
replace_unicode_escape(escape_seq) ==
    IF HexValue(SubSeq(escape_seq, 3, Len(escape_seq))) > 1114111 THEN escape_seq
    ELSE << CodePointChar(HexValue(SubSeq(escape_seq, 3, Len(escape_seq)))) >>

\* re.sub(unicode_pattern, replace_unicode_escape, text) from position i on
RECURSIVE SubEscapes(_, _)
SubEscapes(text, i) ==
    IF i > Len(text) THEN <<>>
    ELSE IF EscapeAt(text, i) = 0 THEN << text[i] >> \o SubEscapes(text, i + 1)
    ELSE replace_unicode_escape(SubSeq(text, i, i + EscapeAt(text, i) - 1))
         \o SubEscapes(text, i + EscapeAt(text, i))

\* DataUtils._decode_unicode_escapes
_decode_unicode_escapes(text) == SubEscapes(text, 1)

\* DataUtils.clean_value
DataUtils_clean_value(value) ==
    IF value = None THEN Return(None)
    ELSE IF value.t = "str"
    THEN LET cleaned == replace(replace(strip(_decode_unicode_escapes(value.s)),
                                        << "\r", "\n" >>, << "\n" >>),
                                << "\r" >>, << "\n" >>)
         IN  IF cleaned = <<>> THEN Return(None) ELSE Return(PyStr(cleaned))
    ELSE Return(value)
\* ----------------------------------------------------------- CSV normalizer
\* the grave accent, U+0060
Backtick == "U+0060"

\* the character a byte decodes to: ASCII in every encoding, 0xFF by encoding
ByteChar(b, encoding) ==
    CASE b = 9 -> "\t"
      [] b = 10 -> "\n"
      [] b = 13 -> "\r"
      [] b = 32 -> " "
      [] b = 34 -> "\""
      [] b = 39 -> "'"
      [] b = 44 -> ","
      [] b = 59 -> ";"
      [] b = 96 -> Backtick
      [] b = 97 -> "a"
      [] b = 124 -> "|"
      [] b = 255 /\ encoding = "cp1251" -> "U+044F"
      [] OTHER -> "U+00FF"

\* bytes.decode(encoding): 0xFF is no UTF-8, and UTF-16 needs pairs of bytes
decode(data, encoding) ==
    IF \/ encoding = "utf-8" /\ \E i \in DOMAIN data : data[i] = 255
       \/ encoding = "utf-16" /\ Len(data) % 2 = 1
    THEN Raise("UnicodeDecodeError", encoding)
    ELSE IF encoding = "utf-16"
    THEN Return([i \in 1..(Len(data) \div 2) |-> "U+16"])
    ELSE Return([i \in DOMAIN data |-> ByteChar(data[i], encoding)])

\* CSVParser.parse, decoding: the loop over the fallback encodings
FallbackEncodings == << "utf-8", "cp1251", "latin-1", "utf-16" >>
RECURSIVE DecodeFallback(_, _)
DecodeFallback(data, encodings) ==
    IF encodings = <<>>
    THEN Raise("ValueError", "Failed to decode data with any supported encoding")
    ELSE IF decode(data, Head(encodings)).ok THEN decode(data, Head(encodings))
    ELSE DecodeFallback(data, Tail(encodings))
DecodeText(data, encoding) ==
    IF decode(data, encoding).ok THEN decode(data, encoding)
    ELSE DecodeFallback(data, FallbackEncodings)

\* lines[:k]
FirstItems(items, k) == SubSeq(items, 1, IF Len(items) < k THEN Len(items) ELSE k)

\* the fields of the sampled lines that begin and end with quote_char
RECURSIVE CountWrapped(_, _)
CountWrapped(fields, quote_char) ==
    IF fields = <<>> THEN 0
    ELSE LET field == strip(Head(fields))
         IN  (IF Len(field) >= 2 /\ field[1] = quote_char /\ field[Len(field)] = quote_char
                 /\ ~Contains(field, "\n")
              THEN 1 ELSE 0) + CountWrapped(Tail(fields), quote_char)
RECURSIVE QuoteCount(_, _, _)
QuoteCount(lines, delimiter, quote_char) ==
    IF lines = <<>> THEN 0
    ELSE (IF strip(Head(lines)) # <<>>
          THEN CountWrapped(split(Head(lines), delimiter), quote_char) ELSE 0)
         + QuoteCount(Tail(lines), delimiter, quote_char)

\* the lines _detect_quote_char analyses
QuoteSampleLines == 5

\* a variant that analyses every line of the text
detect_quote_char_all_lines(self, text_data) ==
    LET lines == split(text_data, "\n")
        dq == QuoteCount(lines, self.delimiter, "\"")
        sq == QuoteCount(lines, self.delimiter, "'")
        bq == QuoteCount(lines, self.delimiter, Backtick)
    IN  IF dq = 0 /\ sq = 0 /\ bq = 0 THEN "\""
        ELSE IF dq >= sq /\ dq >= bq THEN "\""
        ELSE IF sq >= bq THEN "'"
        ELSE Backtick

\* CSVParser._detect_quote_char: max() keeps the first of equal counts
_detect_quote_char(self, text_data) ==
    LET lines == FirstItems(split(text_data, "\n"), QuoteSampleLines)
        dq == QuoteCount(lines, self.delimiter, "\"")
        sq == QuoteCount(lines, self.delimiter, "'")
        bq == QuoteCount(lines, self.delimiter, Backtick)
    IN  IF dq = 0 /\ sq = 0 /\ bq = 0 THEN "\""
        ELSE IF dq >= sq /\ dq >= bq THEN "\""
        ELSE IF sq >= bq THEN "'"
        ELSE Backtick

\* csv.reader (excel dialect: doublequote, no escapechar, not strict): one
\* character of the state machine; EOL is fed after every line
EOL == "EOL"
save_field(st) == [st EXCEPT !.fields = Append(st.fields, st.field), !.field = <<>>]
add_char(st, c) == [st EXCEPT !.field = Append(st.field, c)]
AfterNewline(st, c) ==
    [st EXCEPT !.state = IF c = EOL THEN "START_RECORD" ELSE "EAT_CRNL"]
StartField(st, c, delimiter, quotechar) ==
    IF c \in {"\n", "\r", EOL} THEN AfterNewline(save_field(st), c)
    ELSE IF c = quotechar THEN [st EXCEPT !.state = "IN_QUOTED_FIELD"]
    ELSE IF c = delimiter THEN [save_field(st) EXCEPT !.state = "START_FIELD"]
    ELSE [add_char(st, c) EXCEPT !.state = "IN_FIELD"]
parse_process_char(st, c, delimiter, quotechar) ==
    CASE st.state = "START_RECORD" ->
            IF c = EOL THEN st
            ELSE IF c \in {"\n", "\r"} THEN [st EXCEPT !.state = "EAT_CRNL"]
            ELSE StartField(st, c, delimiter, quotechar)
      [] st.state = "START_FIELD" -> StartField(st, c, delimiter, quotechar)
      [] st.state = "IN_FIELD" ->
            IF c \in {"\n", "\r", EOL} THEN AfterNewline(save_field(st), c)
            ELSE IF c = delimiter THEN [save_field(st) EXCEPT !.state = "START_FIELD"]
            ELSE add_char(st, c)
      [] st.state = "IN_QUOTED_FIELD" ->
            IF c = EOL THEN st
            ELSE IF c = quotechar THEN [st EXCEPT !.state = "QUOTE_IN_QUOTED_FIELD"]
            ELSE add_char(st, c)
      [] st.state = "QUOTE_IN_QUOTED_FIELD" ->
            IF c = quotechar THEN [add_char(st, c) EXCEPT !.state = "IN_QUOTED_FIELD"]
            ELSE IF c = delimiter THEN [save_field(st) EXCEPT !.state = "START_FIELD"]
            ELSE IF c \in {"\n", "\r", EOL} THEN AfterNewline(save_field(st), c)
            ELSE [add_char(st, c) EXCEPT !.state = "IN_FIELD"]
      [] st.state = "EAT_CRNL" ->
            IF c \in {"\n", "\r"} THEN st
            ELSE IF c = EOL THEN [st EXCEPT !.state = "START_RECORD"]
            ELSE [st EXCEPT !.state = "ERROR"]
      [] OTHER -> st

\* a record ends when a line leaves the machine in START_RECORD
EndLine(st, delimiter, quotechar) ==
    LET after == parse_process_char(st, EOL, delimiter, quotechar)
    IN  IF after.state = "START_RECORD"
        THEN [after EXCEPT !.rows = Append(after.rows, after.fields), !.fields = <<>>]
        ELSE after

\* Reader.__next__ over the lines of io.StringIO(text): lines end at "\n"; the
\* input ending inside a record saves the field and returns the record
RECURSIVE ReadChars(_, _, _, _)
ReadChars(st, text, delimiter, quotechar) ==
    IF st.state = "ERROR" THEN st
    ELSE IF text = <<>>
    THEN IF st.state = "START_RECORD" THEN st
         ELSE [st EXCEPT !.rows = Append(st.rows, Append(st.fields, st.field)),
                         !.fields = <<>>, !.field = <<>>, !.state = "START_RECORD"]
    ELSE LET fed == parse_process_char(st, Head(text), delimiter, quotechar)
             next == IF fed.state # "ERROR" /\ (Head(text) = "\n" \/ Len(text) = 1)
                     THEN EndLine(fed, delimiter, quotechar) ELSE fed
         IN  ReadChars(next, Tail(text), delimiter, quotechar)

\* list(csv.reader(io.StringIO(text_data), delimiter=..., quotechar=...))
csv_reader(text_data, delimiter, quotechar) ==
    LET end == ReadChars([state |-> "START_RECORD", field |-> <<>>, fields |-> <<>>,
                          rows |-> <<>>], text_data, delimiter, quotechar)
    IN  IF end.state = "ERROR"
        THEN Raise("csv.Error", "new-line character seen in unquoted field")
        ELSE Return([i \in DOMAIN end.rows |->
                        [j \in DOMAIN end.rows[i] |-> PyStr(end.rows[i][j])]])

\* [self._clean_cell_value(cell) for cell in row] for every row: the cleaned
\* rows, or the first exception the cleaner raises
FirstRaised(results) ==
    LET i == CHOOSE i \in DOMAIN results :
                 /\ \E j \in DOMAIN results[i] : ~results[i][j].ok
                 /\ \A k \in 1..(i - 1) : \A j \in DOMAIN results[k] : results[k][j].ok
        j == CHOOSE j \in DOMAIN results[i] :
                 /\ ~results[i][j].ok
                 /\ \A k \in 1..(j - 1) : results[i][k].ok
    IN  results[i][j]
CleanedOrRaised(results) ==
    IF \E i \in DOMAIN results : \E j \in DOMAIN results[i] : ~results[i][j].ok
    THEN FirstRaised(results)
    ELSE Return([i \in DOMAIN results |-> [j \in DOMAIN results[i] |-> results[i][j].val]])
CleanRows(self, rows) ==
    CleanedOrRaised([i \in DOMAIN rows |->
                        [j \in DOMAIN rows[i] |-> _clean_cell_value(self, rows[i][j])]])

\* max(len(row) for row in rows) if rows else 0
MaxRowLength(rows) ==
    IF rows = <<>> THEN 0
    ELSE CHOOSE m \in {Len(rows[i]) : i \in DOMAIN rows} :
             \A i \in DOMAIN rows : Len(rows[i]) <= m

\* row + [None] * (column_count - len(row)); a count <= 0 adds nothing
PadRow(row, column_count) ==
    row \o [k \in 1..(column_count - Len(row)) |-> None]

\* a variant that takes the width of the first row
NormalizeRowsFirstWidth(name, rows) ==
    Worksheet(name, [i \in DOMAIN rows |-> PadRow(rows[i], Len(rows[1]))],
              Len(rows), Len(rows[1]))

\* the end of CSVParser.parse and of the XLSX loops: the dimensions, the
\* padding and the Worksheet
NormalizeRows(name, rows) ==
    Worksheet(name, [i \in DOMAIN rows |-> PadRow(rows[i], MaxRowLength(rows))],
              Len(rows), MaxRowLength(rows))

\* CSVParser.parse after the rows are read: empty data, cleaning, dimensions
\* and padding. The result carries the tokenized rows and the quote character.
WithReading(made, rows, quotechar) ==
    IF made.ok
    THEN [ok |-> TRUE, val |-> made.val, rows |-> rows, quotechar |-> quotechar]
    ELSE made
NormalizeCleaned(worksheet_name, cleaned) ==
    IF cleaned.ok THEN NormalizeRows(worksheet_name, cleaned.val) ELSE cleaned
ParseRows(self, worksheet_name, read, quotechar) ==
    IF ~read.ok THEN read
    ELSE IF read.val = <<>>
    THEN WithReading(Worksheet(worksheet_name, <<>>, 0, 0), read.val, quotechar)
    ELSE WithReading(NormalizeCleaned(worksheet_name, CleanRows(self, read.val)),
                     read.val, quotechar)

\* CSVParser.parse from the decoded text on: the quote character is detected
\* only when the configured one is the double quote
ParseTextWith(self, worksheet_name, text_data, quotechar) ==
    ParseRows(self, worksheet_name, csv_reader(text_data, self.delimiter, quotechar),
              quotechar)
ParseText(self, worksheet_name, decoded) ==
    IF ~decoded.ok THEN decoded
    ELSE ParseTextWith(self, worksheet_name, decoded.val,
                       IF self.quotechar = "\"" THEN _detect_quote_char(self, decoded.val)
                       ELSE self.quotechar)

\* CSVParser.parse; encoding is self.encoding or what _detect_encoding found
CSVParser_parse(self, data, worksheet_name, encoding) ==
    ParseText(self, worksheet_name, DecodeText(data, encoding))

\* CSVParser.parse_multiple over the items of data_dict in order, each with
\* the encoding found for its data; nothing here is in a try block
Untitled == << "U", "n", "t", "i", "t", "l", "e", "d" >>
ParsedItems(self, data_dict) ==
    [i \in DOMAIN data_dict |->
        CSVParser_parse(self, data_dict[i].value, data_dict[i].key,
                        IF self.encoding # "" THEN self.encoding ELSE data_dict[i].detected)]
FirstFailedItem(results) ==
    results[CHOOSE i \in DOMAIN results :
                ~results[i].ok /\ \A k \in 1..(i - 1) : results[k].ok]
\* a variant that reports every failure as a parse failure
parse_multiple_wrapped(self, data_dict) ==
    IF \E i \in DOMAIN data_dict : ~ParsedItems(self, data_dict)[i].ok
    THEN Raise("ValueError", "Failed to parse CSV data")
    ELSE IF ~Spreadsheet(IF data_dict = <<>> THEN Untitled ELSE data_dict[1].key,
                         [i \in DOMAIN data_dict |-> ParsedItems(self, data_dict)[i].val],
                         None).ok
    THEN Raise("ValueError", "Failed to parse CSV data")
    ELSE Spreadsheet(data_dict[1].key,
                     [i \in DOMAIN data_dict |-> ParsedItems(self, data_dict)[i].val], None)
CSVParser_parse_multiple(self, data_dict) ==
    IF \E i \in DOMAIN data_dict : ~ParsedItems(self, data_dict)[i].ok
    THEN Raise(FirstFailedItem(ParsedItems(self, data_dict)).err,
               FirstFailedItem(ParsedItems(self, data_dict)).msg)
    ELSE Spreadsheet(IF data_dict = <<>> THEN Untitled ELSE data_dict[1].key,
                     [i \in DOMAIN data_dict |-> ParsedItems(self, data_dict)[i].val],
                     None)

\* CSVParser.detect_delimiter: the lines that are analysed
DelimiterSampleLines == 5
Delimiters == << ",", ";", "\t", "|" >>

\* line.count(delimiter)
count(line, delimiter) == Cardinality({i \in DOMAIN line : line[i] = delimiter})

\* the occurrences of a delimiter in the lines that are not blank
RECURSIVE DelimiterCount(_, _)
DelimiterCount(lines, delimiter) ==
    IF lines = <<>> THEN 0
    ELSE (IF strip(Head(lines)) # <<>> THEN count(Head(lines), delimiter) ELSE 0)
         + DelimiterCount(Tail(lines), delimiter)

\* max(delimiter_counts, key=...): the first key of the highest count
FirstMax(keys, counts) ==
    keys[CHOOSE i \in DOMAIN keys :
            /\ \A j \in DOMAIN keys : counts[j] <= counts[i]
            /\ \A j \in 1..(i - 1) : counts[j] < counts[i]]

MostFrequent(lines) ==
    FirstMax(Delimiters, [i \in DOMAIN Delimiters |-> DelimiterCount(lines, Delimiters[i])])

\* a variant that analyses every line of the text
detect_delimiter_all_lines(self, data, encoding) ==
    IF ~decode(data, encoding).ok THEN decode(data, encoding)
    ELSE Return(MostFrequent(split(decode(data, encoding).val, "\n")))

\* CSVParser.detect_delimiter; encoding is self.encoding or what
\* _detect_encoding found. The text is decoded once, with no fallback.
detect_delimiter(self, data, encoding) ==
    IF ~decode(data, encoding).ok THEN decode(data, encoding)
    ELSE Return(MostFrequent(FirstItems(split(decode(data, encoding).val, "\n"),
                                        DelimiterSampleLines)))
\* the number of cells of rows of any lengths
RECURSIVE TotalCells(_)
TotalCells(rows) == IF rows = <<>> THEN 0 ELSE Len(Head(rows)) + TotalCells(Tail(rows))

\* -------------------------------------------------------- Worksheet cleanup
\* not (cell is not None and str(cell).strip()); Cell.is_empty is the same test
IsBlank(cell) == cell = None \/ strip(str(cell)) = <<>>
RowNonEmpty(row) == \E j \in DOMAIN row : ~IsBlank(row[j])
NonEmptyRows(data) == SelectSeq(data, RowNonEmpty)
PadRows(rows) == [i \in DOMAIN rows |-> PadRow(rows[i], MaxRowLength(rows))]

\* the columns of range(self.column_count) with no non-blank cell in any row
EmptyColumns(ws) ==
    {c \in 1..ws.column_count :
        \A i \in DOMAIN ws.data : ~(c <= Len(ws.data[i]) /\ ~IsBlank(ws.data[i][c]))}
\* the cells of a row whose index is not in empty_columns, in order
RECURSIVE WithoutColumns(_, _, _)
WithoutColumns(row, col_idx, empty_columns) ==
    IF col_idx > Len(row) THEN <<>>
    ELSE (IF col_idx \in empty_columns THEN <<>> ELSE << row[col_idx] >>)
         \o WithoutColumns(row, col_idx + 1, empty_columns)
ColumnsRemoved(ws) ==
    [i \in DOMAIN ws.data |-> WithoutColumns(ws.data[i], 1, EmptyColumns(ws))]

\* DataUtils.find_empty_columns: the columns of range(max_cols) with no
\* non-blank cell in any row
DataUtils_find_empty_columns(data) ==
    IF data = <<>> THEN {}
    ELSE {col \in 1..MaxRowLength(data) :
             \A i \in DOMAIN data : ~(col <= Len(data[i]) /\ ~IsBlank(data[i][col]))}
\* DataUtils.remove_empty_columns: one new_row per row of data, whatever is
\* left of it
DataUtils_remove_empty_columns(data) ==
    IF data = <<>> THEN data
    ELSE [i \in DOMAIN data |->
             WithoutColumns(data[i], 1, DataUtils_find_empty_columns(data))]
\* Worksheet.remove_empty_rows: the new Worksheet, or self when there is no data
remove_empty_rows(ws) ==
    IF ws.data = <<>> THEN [val |-> ws, is_self |-> TRUE]
    ELSE [val |-> Worksheet(ws.name, PadRows(NonEmptyRows(ws.data)),
                            Len(NonEmptyRows(ws.data)),
                            MaxRowLength(NonEmptyRows(ws.data))).val,
          is_self |-> FALSE]

\* Worksheet.remove_empty_columns: the rows are not padded again
remove_empty_columns(ws) ==
    IF ws.data = <<>> \/ ws.column_count = 0 THEN [val |-> ws, is_self |-> TRUE]
    ELSE [val |-> Worksheet(ws.name, ColumnsRemoved(ws), Len(ColumnsRemoved(ws)),
                            MaxRowLength(ColumnsRemoved(ws))).val,
          is_self |-> FALSE]

\* Worksheet.clean_data: the columns are removed from the result of the rows
AfterRows(cleaned_worksheet, columns) ==
    [val |-> columns.val, is_self |-> cleaned_worksheet.is_self /\ columns.is_self]
WithColumnsRemoved(cleaned_worksheet) ==
    AfterRows(cleaned_worksheet, remove_empty_columns(cleaned_worksheet.val))

\* a variant of clean_data that removes the columns before the rows
clean_data_columns_first(ws) ==
    [val |-> remove_empty_rows(remove_empty_columns(ws).val).val,
     is_self |-> remove_empty_columns(ws).is_self
                    /\ remove_empty_rows(remove_empty_columns(ws).val).is_self]

\* a variant of clean_data that removes the columns only
clean_data_columns_only(ws) == remove_empty_columns(ws)

\* Worksheet.clean_data
clean_data(ws) == WithColumnsRemoved(remove_empty_rows(ws))

\* Worksheet.remove_empty_rows_inplace: self after the call
remove_empty_rows_inplace(ws) ==
    IF ws.data = <<>> THEN ws
    ELSE [ws EXCEPT !.data = PadRows(NonEmptyRows(ws.data)),
                    !.row_count = Len(NonEmptyRows(ws.data)),
                    !.column_count = MaxRowLength(NonEmptyRows(ws.data))]

\* Worksheet.remove_empty_columns_inplace: self after the call
remove_empty_columns_inplace(ws) ==
    IF ws.data = <<>> \/ ws.column_count = 0 THEN ws
    ELSE [ws EXCEPT !.data = ColumnsRemoved(ws),
                    !.row_count = Len(ColumnsRemoved(ws)),
                    !.column_count = MaxRowLength(ColumnsRemoved(ws))]

\* a variant of clean_data_inplace that removes the rows only
clean_data_inplace_rows_only(ws) == remove_empty_rows_inplace(ws)

\* Worksheet.clean_data_inplace: self after the call
clean_data_inplace(ws) == remove_empty_columns_inplace(remove_empty_rows_inplace(ws))

\* -------------------------------------------------------- Worksheet queries
\* Cell.is_empty
is_empty(cell) == cell.value = None \/ strip(str(cell.value)) = <<>>

\* Worksheet.get_row: a Cell per declared column, or the IndexError of get_cell
get_row(ws, row_number) ==
    IF ~_is_valid_row(ws, row_number) THEN Return(<<>>)
    ELSE IF \E col \in 1..ws.column_count : ~get_cell(ws, row_number, col).ok
    THEN Raise("IndexError", "list index out of range")
    ELSE Return([col \in 1..ws.column_count |-> get_cell(ws, row_number, col).val])

\* key == other as a dict compares keys: numbers (bool included) by value
SameKey(key, other) ==
    \/ key = other
    \/ /\ key.t \in {"int", "bool"} /\ other.t \in {"int", "bool"}
       /\ key.n = other.n

\* row_data[key] = value on a dict kept as its entries in insertion order: an
\* equal key keeps its place and its first spelling
SetItem(row_data, key, value) ==
    IF \E i \in DOMAIN row_data : SameKey(row_data[i].key, key)
    THEN [i \in DOMAIN row_data |->
            IF SameKey(row_data[i].key, key)
            THEN [key |-> row_data[i].key, value |-> value] ELSE row_data[i]]
    ELSE Append(row_data, [key |-> key, value |-> value])

\* the mapping of one row: the i-th cell under the i-th header
RECURSIVE RowData(_, _, _)
RowData(headers, row_cells, n) ==
    IF n = 0 THEN <<>>
    ELSE SetItem(RowData(headers, row_cells, n - 1), headers[n], row_cells[n].value)
RowDict(headers, row_cells) ==
    RowData(headers, row_cells,
            IF Len(row_cells) < Len(headers) THEN Len(row_cells) ELSE Len(headers))

\* the values of the header cells that are not empty
RECURSIVE Headers(_)
Headers(header_cells) ==
    IF header_cells = <<>> THEN <<>>
    ELSE (IF is_empty(Head(header_cells)) THEN <<>> ELSE << Head(header_cells).value >>)
         \o Headers(Tail(header_cells))

\* the loop over the rows after the header row
DictRows(ws, headers, headers_row) ==
    IF \E r \in (headers_row + 1)..ws.row_count : ~get_row(ws, r).ok
    THEN Raise("IndexError", "list index out of range")
    ELSE Return([k \in 1..(ws.row_count - headers_row) |->
                    RowDict(headers, get_row(ws, headers_row + k).val)])

\* Worksheet.get_data_as_dict
get_data_as_dict(ws, headers_row) ==
    IF ws.data = <<>> \/ headers_row > ws.row_count THEN Return(<<>>)
    ELSE IF ~get_row(ws, headers_row).ok THEN get_row(ws, headers_row)
    ELSE IF Headers(get_row(ws, headers_row).val) = <<>> THEN Return(<<>>)
    ELSE DictRows(ws, Headers(get_row(ws, headers_row).val), headers_row)
\* Worksheet.get_all_cells: a Cell per stored value, row by row
RowCells(row_data, row) == [col \in DOMAIN row_data |-> Cell(row, col, row_data[col]).val]
RECURSIVE CellsUpTo(_, _)
CellsUpTo(data, n) ==
    IF n = 0 THEN <<>> ELSE CellsUpTo(data, n - 1) \o RowCells(data[n], n)
get_all_cells(ws) == CellsUpTo(ws.data, Len(ws.data))

\* re.compile, for patterns of literal characters with an optional ^ in front
\* and an optional $ at the end; a lone ( is no pattern
re_compile(pattern) ==
    IF pattern = << "(" >>
    THEN Raise("error", "missing ), unterminated subpattern at position 0")
    ELSE LET from == IF pattern # <<>> /\ Head(pattern) = "^" THEN 2 ELSE 1
             to == IF pattern # <<>> /\ pattern[Len(pattern)] = "$"
                   THEN Len(pattern) - 1 ELSE Len(pattern)
         IN  Return([at_start |-> from = 2, at_end |-> to < Len(pattern),
                     literal |-> SubSeq(pattern, from, to)])

\* compiled_pattern.search(string) is not None; $ matches at the end and
\* before a newline that ends the string
search(compiled, string) ==
    \E i \in 1..(Len(string) + 1) :
        /\ compiled.at_start => i = 1
        /\ i + Len(compiled.literal) - 1 <= Len(string)
        /\ SubSeq(string, i, i + Len(compiled.literal) - 1) = compiled.literal
        /\ compiled.at_end =>
              \/ i + Len(compiled.literal) - 1 = Len(string)
              \/ /\ i + Len(compiled.literal) = Len(string)
                 /\ string[Len(string)] = "\n"

Found(compiled, cell) == Truthy(cell.value) /\ search(compiled, str(cell.value))

\* Worksheet.find_cells_by_pattern
find_cells_by_pattern(ws, pattern) ==
    IF ~re_compile(pattern).ok THEN re_compile(pattern)
    ELSE Return(SelectSeq(get_all_cells(ws),
                          LAMBDA cell : Found(re_compile(pattern).val, cell)))

\* Spreadsheet.find_cells_by_pattern: cells.extend per worksheet
RECURSIVE FoundInSheets(_, _)
FoundInSheets(worksheets, pattern) ==
    IF worksheets = <<>> THEN <<>>
    ELSE find_cells_by_pattern(Head(worksheets), pattern).val
         \o FoundInSheets(Tail(worksheets), pattern)
Spreadsheet_find_cells_by_pattern(b, pattern) ==
    IF ~re_compile(pattern).ok THEN re_compile(pattern)
    ELSE Return(FoundInSheets(b.worksheets, pattern))
\* Spreadsheet.export_to_dict: result[worksheet.name] = ... per worksheet, in
\* order; the first get_data_as_dict that raises ends the call
RECURSIVE ExportUpTo(_, _, _)
ExportUpTo(worksheets, headers_row, n) ==
    IF n = 0 THEN <<>>
    ELSE SetItem(ExportUpTo(worksheets, headers_row, n - 1), PyStr(worksheets[n].name),
                 get_data_as_dict(worksheets[n], headers_row).val)
export_to_dict(b, headers_row) ==
    IF \E i \in DOMAIN b.worksheets : ~get_data_as_dict(b.worksheets[i], headers_row).ok
    THEN Raise("IndexError", "list index out of range")
    ELSE Return(ExportUpTo(b.worksheets, headers_row, Len(b.worksheets)))
\* ---------------------------------------------------------- XLSX normalizer
\* load_workbook(io.BytesIO(data), ...): what openpyxl makes of the bytes is a
\* workbook (its sheets in order, each a title and rows of values, and the
\* index of the active sheet) or an exception
Workbook(sheets, active) == [loadable |-> TRUE, sheets |-> sheets, active |-> active]
NotAWorkbook == [loadable |-> FALSE, sheets |-> <<>>, active |-> 0]
sheetnames(workbook) == [i \in DOMAIN workbook.sheets |-> workbook.sheets[i].title]

\* an XLSX call's outcome with the state of the workbook handle: opened by
\* load_workbook, closed by workbook.close()
WithHandle(res, opened, closed) ==
    IF res.ok
    THEN [ok |-> TRUE, val |-> res.val, opened |-> opened, closed |-> closed]
    ELSE [ok |-> FALSE, err |-> res.err, msg |-> res.msg, cause |-> res.cause,
          opened |-> opened, closed |-> closed]

\* a variant that lets the exception through as it is
Reraised(message, e) ==
    [ok |-> FALSE, err |-> e.err, msg |-> e.msg, cause |-> e.err]

\* except Exception as e: raise ValueError(f"{message}: {e}")
Wrapped(message, e) ==
    [ok |-> FALSE, err |-> "ValueError", msg |-> message, cause |-> e.err]

\* workbook[worksheet_name] when the name is a sheet's, else workbook.active
SelectSheet(workbook, worksheet_name) ==
    IF \E i \in DOMAIN workbook.sheets : workbook.sheets[i].title = worksheet_name
    THEN workbook.sheets[CHOOSE i \in DOMAIN workbook.sheets :
                             workbook.sheets[i].title = worksheet_name]
    ELSE workbook.sheets[workbook.active]

\* worksheet.iter_rows(values_only=True): the rows of the sheet, or the
\* exception openpyxl raises when the sheet's XML cannot be read
iter_rows(ws) ==
    IF ws.readable THEN Return(ws.rows)
    ELSE Raise("ParseError", "not well-formed (invalid token)")
\* the loop over iter_rows that cleans every cell
ReadRows(self, ws) ==
    IF iter_rows(ws).ok THEN CleanRows(self, iter_rows(ws).val) ELSE iter_rows(ws)

\* XLSXParser.parse from the cleaned rows on: workbook.close() comes before the
\* Worksheet is built
ParseCleaned(title, cleaned) ==
    IF ~cleaned.ok
    THEN WithHandle(Wrapped("Failed to parse XLSX data", cleaned), TRUE, FALSE)
    ELSE IF ~NormalizeRows(title, cleaned.val).ok
    THEN WithHandle(Wrapped("Failed to parse XLSX data", NormalizeRows(title, cleaned.val)),
                    TRUE, TRUE)
    ELSE WithHandle(NormalizeRows(title, cleaned.val), TRUE, TRUE)
ParseSheet(self, ws) == ParseCleaned(ws.title, ReadRows(self, ws))

\* XLSXParser.parse
XLSXParser_parse(self, workbook, worksheet_name) ==
    IF ~workbook.loadable
    THEN WithHandle(Wrapped("Failed to parse XLSX data",
                            Raise("InvalidFileException", "File is not a zip file")),
                    FALSE, FALSE)
    ELSE ParseSheet(self, SelectSheet(workbook, worksheet_name))

\* the first exception of the loop over the sheets, or all the Worksheets
FirstFailed(results) ==
    results[CHOOSE i \in DOMAIN results :
                ~results[i].ok /\ \A k \in 1..(i - 1) : results[k].ok]
WorkbookFromSheets(results) ==
    IF \E i \in DOMAIN results : ~results[i].ok
    THEN WithHandle(Wrapped("Failed to parse XLSX workbook", FirstFailed(results)),
                    TRUE, FALSE)
    ELSE LET worksheets == [i \in DOMAIN results |-> results[i].val]
             title == IF worksheets = <<>> THEN << "U", "n", "t", "i", "t", "l", "e", "d" >>
                      ELSE worksheets[1].name
             made == Spreadsheet(title, worksheets, None)
         IN  IF made.ok THEN WithHandle(made, TRUE, TRUE)
             ELSE WithHandle(Wrapped("Failed to parse XLSX workbook", made), TRUE, TRUE)

\* XLSXParser.parse_workbook
XLSXParser_parse_workbook(self, workbook) ==
    IF ~workbook.loadable
    THEN WithHandle(Wrapped("Failed to parse XLSX workbook",
                            Raise("InvalidFileException", "File is not a zip file")),
                    FALSE, FALSE)
    ELSE WorkbookFromSheets(
             [i \in DOMAIN workbook.sheets |->
                 NormalizeCleaned(workbook.sheets[i].title,
                                  ReadRows(self, workbook.sheets[i]))])

\* XLSXParser.get_worksheet_names: any failure gives the empty list
XLSXParser_get_worksheet_names(self, workbook) ==
    IF ~workbook.loadable THEN [ok |-> TRUE, val |-> <<>>, opened |-> FALSE, closed |-> FALSE]
    ELSE [ok |-> TRUE, val |-> sheetnames(workbook), opened |-> TRUE, closed |-> TRUE]

\* ------------------------------------------------------------------ client
\* A URL is given by what urlparse and the id patterns find in it: netloc, and
\* sheet_id (None when no pattern matches).
extract_sheet_id(url) == url.sheet_id
is_google_sheets_url(url) ==
    url.netloc \in {"docs.google.com", "drive.google.com"} /\ extract_sheet_id(url) # None

\* The network answers the k-th request of a call with net[k]: no answer, or
\* the exported document, which reads as a workbook and as CSV bytes.
NoAnswer == [ok |-> FALSE]
Exported(workbook, data, detected) ==
    [ok |-> TRUE, workbook |-> workbook, data |-> data, detected |-> detected]

\* GoogleSheetsDownloader.download_sheet: self.session.get answers with net[k]
download_sheet(url, net, k) ==
    IF ~is_google_sheets_url(url)
    THEN Raise("ValueError", "invalid Google Sheets URL")
    ELSE IF ~net[k].ok
    THEN Raise("RequestException", "error while downloading the sheet")
    ELSE Return(net[k])

\* GoogleSheetsDownloader.list_worksheets: one CSV download, then the fixed
\* listing, or None after any exception. A downloader with a listing of its own
\* (self.downloader is an attribute of the client) answers with that listing
\* and makes no request. is_none tells None from a dictionary.
SourceListing == << [name |-> << "S", "h", "e", "e", "t", "1" >>, gid |-> "0"] >>
list_worksheets(downloader, url, net, k) ==
    IF downloader.lists THEN [is_none |-> FALSE, val |-> downloader.listing, requests |-> 0]
    ELSE IF download_sheet(url, net, k).ok
    THEN [is_none |-> FALSE, val |-> SourceListing, requests |-> 1]
    ELSE [is_none |-> TRUE, val |-> <<>>,
          requests |-> IF is_google_sheets_url(url) THEN 1 ELSE 0]

GSParseClient(downloader) ==
    [downloader |-> downloader, csv_parser |-> CSVParser(",", "\"", ""),
     xlsx_parser |-> XLSXParser(TRUE)]

\* an outcome of load_spreadsheet with the number of requests made
After(res, requests) ==
    IF res.ok THEN [ok |-> TRUE, val |-> res.val, requests |-> requests]
    ELSE [ok |-> FALSE, err |-> res.err, msg |-> res.msg, requests |-> requests]

\* self.csv_parser.parse(data, sheet_name) on the k-th answer
ParsedAnswer(self, answer, sheet_name) ==
    CSVParser_parse(self.csv_parser, answer.data, sheet_name, answer.detected)

\* the try block of the xlsx format: download, parse_workbook, set the url
LoadWorkbook(self, url, net) ==
    IF ~download_sheet(url, net, 1).ok THEN download_sheet(url, net, 1)
    ELSE IF ~XLSXParser_parse_workbook(self.xlsx_parser, net[1].workbook).ok
    THEN Raise("ValueError", "Failed to parse XLSX workbook")
    ELSE Return([XLSXParser_parse_workbook(self.xlsx_parser, net[1].workbook).val
                    EXCEPT !.url = url])

\* if not worksheets_info: the first sheet only, nothing caught
LoadFirstSheet(self, url, net, k) ==
    IF ~download_sheet(url, net, k).ok THEN After(download_sheet(url, net, k), k)
    ELSE IF ~ParsedAnswer(self, net[k], << "S", "h", "e", "e", "t", "1" >>).ok
    THEN After(Raise(ParsedAnswer(self, net[k], << "S", "h", "e", "e", "t", "1" >>).err,
                     ParsedAnswer(self, net[k], << "S", "h", "e", "e", "t", "1" >>).msg), k)
    ELSE After(Spreadsheet(<< "I", "m", "p", "o", "r", "t", "e", "d", " ", "S", "h", "e", "e", "t" >>,
                           << ParsedAnswer(self, net[k],
                                           << "S", "h", "e", "e", "t", "1" >>).val >>,
                           url), k)

\* a variant of the loop that ends at the first worksheet that fails
RECURSIVE loaded_sheets_until_failure(_, _, _, _, _, _)
loaded_sheets_until_failure(self, url, net, k, worksheets_info, n) ==
    IF n = 0 THEN <<>>
    ELSE IF Len(loaded_sheets_until_failure(self, url, net, k, worksheets_info, n - 1)) < n - 1
    THEN loaded_sheets_until_failure(self, url, net, k, worksheets_info, n - 1)
    ELSE loaded_sheets_until_failure(self, url, net, k, worksheets_info, n - 1)
         \o (IF download_sheet(url, net, k + n - 1).ok
                /\ ParsedAnswer(self, net[k + n - 1], worksheets_info[n].name).ok
             THEN << ParsedAnswer(self, net[k + n - 1], worksheets_info[n].name).val >>
             ELSE <<>>)

\* the loop over worksheets_info.items(): the i-th item is asked for with
\* request k + i - 1; a worksheet that fails to download or parse is skipped
RECURSIVE LoadedSheets(_, _, _, _, _, _)
LoadedSheets(self, url, net, k, worksheets_info, n) ==
    IF n = 0 THEN <<>>
    ELSE LoadedSheets(self, url, net, k, worksheets_info, n - 1)
         \o (IF download_sheet(url, net, k + n - 1).ok
                /\ ParsedAnswer(self, net[k + n - 1], worksheets_info[n].name).ok
             THEN << ParsedAnswer(self, net[k + n - 1], worksheets_info[n].name).val >>
             ELSE <<>>)

\* the worksheets that loaded, or the failure when there is none
LoadAllSheets(self, url, net, k, worksheets_info) ==
    LET worksheets == LoadedSheets(self, url, net, k, worksheets_info, Len(worksheets_info))
    IN  IF worksheets = <<>>
        THEN After(Raise("Exception", "Failed to load any worksheets"),
                   k + Len(worksheets_info) - 1)
        ELSE After(Spreadsheet(worksheets[1].name, worksheets, url),
                   k + Len(worksheets_info) - 1)

\* the CSV format, or the fallback: k is the next request
LoadCsv(self, url, net, k) ==
    LET worksheets_info == list_worksheets(self.downloader, url, net, k)
    IN  IF worksheets_info.is_none \/ worksheets_info.val = <<>>
        THEN LoadFirstSheet(self, url, net, k + worksheets_info.requests)
        ELSE LoadAllSheets(self, url, net, k + worksheets_info.requests, worksheets_info.val)

\* a variant that surfaces the failure of the xlsx format
load_spreadsheet_no_fallback(self, url, format_type, net) ==
    IF ~is_google_sheets_url(url)
    THEN After(Raise("ValueError", "Invalid Google Sheets URL"), 0)
    ELSE IF format_type = "xlsx" THEN After(LoadWorkbook(self, url, net), 1)
    ELSE LoadCsv(self, url, net, 1)

\* GSParseClient.load_spreadsheet
load_spreadsheet(self, url, format_type, net) ==
    IF ~is_google_sheets_url(url)
    THEN After(Raise("ValueError", "Invalid Google Sheets URL"), 0)
    ELSE IF format_type = "xlsx"
    THEN IF LoadWorkbook(self, url, net).ok THEN After(LoadWorkbook(self, url, net), 1)
         ELSE LoadCsv(self, url, net, 2)
    ELSE LoadCsv(self, url, net, 1)

\* ---------------------------------------------------- calls: codec and Range
AddrChars == {"A", "b", "1", "0", ":", "!"}
NameChars == {"S", "!", ":", "1"}
ColumnSamples == {1, 26, 27, 703}
WorksheetNames == {None} \cup {PyStr(s) : s \in SeqsOf(NameChars, 0, MaxNameLen)}

\* col -> letters -> col, through the address of a cell in row 1
CallNumberToLetter ==
    /\ call = Idle
    /\ UNCHANGED << sheet, book >>
    /\ \E n \in 1..MaxColumn :
        LET letters == _number_to_column_letter(n)
        IN  call' = [op |-> "_number_to_column_letter", args |-> n,
                     ret |-> [letters |-> letters,
                              back |-> _parse_cell_address(letters \o << "1" >>)]]

\* letters -> col -> letters
CallLettersToNumber ==
    /\ call = Idle
    /\ UNCHANGED << sheet, book >>
    /\ \E s \in SeqsOf(Range1(UpperLetters), 1, MaxLetters) :
        LET parsed == _parse_cell_address(s \o << "1" >>)
        IN  call' = [op |-> "letters_to_number", args |-> s,
                     ret |-> [parsed |-> parsed,
                              back |-> IF parsed.ok
                                       THEN _number_to_column_letter(parsed.val.col)
                                       ELSE <<>>]]

CallRange ==
    /\ call = Idle
    /\ UNCHANGED << sheet, book >>
    /\ \E sr, er, sc, ec \in (-1)..MaxCoord :
        call' = [op |-> "Range", args |-> << sr, er, sc, ec >>,
                 ret |-> Range(sr, er, sc, ec, None)]

CallParseCellAddress ==
    /\ call = Idle
    /\ UNCHANGED << sheet, book >>
    /\ \E s \in SeqsOf(AddrChars, 0, MaxCellLen) :
        call' = [op |-> "_parse_cell_address", args |-> s, ret |-> _parse_cell_address(s)]

CallFromAddress ==
    /\ call = Idle
    /\ UNCHANGED << sheet, book >>
    /\ \E s \in SeqsOf(AddrChars, 0, MaxAddrLen) :
        call' = [op |-> "from_address", args |-> s, ret |-> from_address(s)]

\* r.address, then Range.from_address of it, for every valid Range r
CallAddressRoundTrip ==
    /\ call = Idle
    /\ UNCHANGED << sheet, book >>
    /\ \E sr, er \in 1..MaxRow, sc, ec \in ColumnSamples, name \in WorksheetNames :
        /\ Range(sr, er, sc, ec, name).ok
        /\ LET r == Range(sr, er, sc, ec, name).val
           IN  call' = [op |-> "address", args |-> r,
                        ret |-> [address |-> address(r), back |-> from_address(address(r))]]

InitIdle == call = Idle /\ sheet = NoSheet /\ book = NoBook

NextCodec == CallNumberToLetter \/ CallLettersToNumber
SpecCodec == InitIdle /\ [][NextCodec]_vars

NextRange == CallRange \/ CallParseCellAddress \/ CallFromAddress \/ CallAddressRoundTrip
SpecRange == InitIdle /\ [][NextRange]_vars
\* -------------------------------------------- calls: Worksheet, Spreadsheet
CellValues == {None, PyStr(<< "x" >>)}
\* every Worksheet the constructor accepts, within the bounds: rows of any
\* lengths, declared counts that need not match the stored rows
SheetRows == SeqsOf(CellValues, 0, MaxCols)
Worksheets ==
    {Worksheet(<< "S" >>, data, rc, cc).val :
        data \in SeqsOf(SheetRows, 0, MaxRows), rc \in 0..MaxRows, cc \in 0..MaxCols}

InitSheet == call = Idle /\ sheet \in Worksheets /\ book = NoBook

CallGetCell ==
    /\ call = Idle
    /\ UNCHANGED << sheet, book >>
    /\ \E row \in 0..(MaxRows + 1), column \in 0..(MaxCols + 1) :
        call' = [op |-> "get_cell", args |-> << row, column >>,
                 ret |-> get_cell(sheet, row, column)]

NextSheet == CallGetCell
SpecSheet == InitSheet /\ [][NextSheet]_vars

\* the worksheets a Spreadsheet is built from and grows by
SheetNames == {<< "A" >>, << "B" >>, << "C" >>}
BookSheets ==
    {Worksheet(name, <<>>, 0, 0).val : name \in SheetNames}
        \cup {Worksheet(name, << << PyStr(<< "x" >>) >> >>, 1, 1).val : name \in SheetNames}
Titles == {<< "T" >>, << " " >>}

NewSpreadsheet ==
    /\ ~book.constructed
    /\ sheet' = sheet
    /\ \E title \in Titles, worksheets \in SeqsOf(BookSheets, 0, MaxInitSheets) :
        LET made == Spreadsheet(title, worksheets, None)
        IN  /\ call' = [op |-> "Spreadsheet",
                        args |-> [title |-> title, worksheets |-> worksheets],
                        ret |-> IF made.ok THEN Return(None) ELSE made]
            /\ book' = IF made.ok THEN made.val ELSE book

CallGetWorksheet ==
    /\ book.constructed
    /\ UNCHANGED << sheet, book >>
    /\ \E name \in SheetNames \cup {<< "Z" >>} :
        call' = [op |-> "get_worksheet", args |-> name, ret |-> Return(get_worksheet(book, name))]

CallAddWorksheet ==
    /\ book.constructed
    /\ Len(book.worksheets) < MaxSheets
    /\ sheet' = sheet
    /\ \E worksheet \in BookSheets :
        /\ call' = [op |-> "add_worksheet", args |-> worksheet,
                    ret |-> add_worksheet(book, worksheet).ret]
        /\ book' = add_worksheet(book, worksheet).book

CallRemoveWorksheet ==
    /\ book.constructed
    /\ sheet' = sheet
    /\ \E name \in SheetNames \cup {<< "Z" >>} :
        /\ call' = [op |-> "remove_worksheet", args |-> name,
                    ret |-> remove_worksheet(book, name).ret]
        /\ book' = remove_worksheet(book, name).book

Init == InitIdle
Next == NewSpreadsheet \/ CallGetWorksheet \/ CallAddWorksheet \/ CallRemoveWorksheet
Spec == Init /\ [][Next]_vars

\* ------------------------------------------------ calls: Worksheet cleanup
GridValues == {None, PyStr(<< "x" >>), PyStr(<< " " >>), PyInt(0)}
GridData ==
    {data \in SeqsOf(SeqsOf(GridValues, 0, MaxGridCols), 0, MaxGridRows) :
        TotalCells(data) <= MaxGridCells}
\* the Worksheets the constructor accepts: the declared counts are those of
\* the stored rows, or 0, or the greatest count
GridsOf(data) ==
    {Worksheet(<< "S" >>, data, rc, cc).val :
        rc \in {Len(data), MaxGridRows}, cc \in {MaxRowLength(data), 0, MaxGridCols}}
Grids == UNION {GridsOf(data) : data \in GridData}

InitGrid == call = Idle /\ sheet \in Grids /\ book = NoBook

CallRemoveEmptyRows ==
    /\ UNCHANGED << sheet, book >>
    /\ call' = [op |-> "remove_empty_rows", ret |-> remove_empty_rows(sheet)]
CallRemoveEmptyColumns ==
    /\ UNCHANGED << sheet, book >>
    /\ call' = [op |-> "remove_empty_columns", ret |-> remove_empty_columns(sheet)]
CallCleanData ==
    /\ UNCHANGED << sheet, book >>
    /\ call' = [op |-> "clean_data", ret |-> clean_data(sheet)]
CallRemoveEmptyRowsInplace ==
    /\ UNCHANGED book
    /\ sheet' = remove_empty_rows_inplace(sheet)
    /\ call' = [op |-> "remove_empty_rows_inplace", self |-> sheet]
CallRemoveEmptyColumnsInplace ==
    /\ UNCHANGED book
    /\ sheet' = remove_empty_columns_inplace(sheet)
    /\ call' = [op |-> "remove_empty_columns_inplace", self |-> sheet]
CallCleanDataInplace ==
    /\ UNCHANGED book
    /\ sheet' = clean_data_inplace(sheet)
    /\ call' = [op |-> "clean_data_inplace", self |-> sheet]

NextGrid ==
    \/ CallRemoveEmptyRows
    \/ CallRemoveEmptyColumns
    \/ CallCleanData
    \/ CallRemoveEmptyRowsInplace
    \/ CallRemoveEmptyColumnsInplace
    \/ CallCleanDataInplace
SpecGrid == InitGrid /\ [][NextGrid]_vars

\* ------------------------------------------------ calls: Worksheet queries
QueryValues == {None, PyStr(<< "x" >>), PyStr(<<>>), PyInt(0), PyBool(FALSE)}
QueryData ==
    {data \in SeqsOf(SeqsOf(QueryValues, 0, MaxQueryCols), 0, MaxQueryRows) :
        TotalCells(data) <= MaxQueryCells}
\* the declared counts are those of the stored rows, or 0, or the greatest count
QueryGridsOf(data) ==
    {Worksheet(<< "S" >>, data, rc, cc).val :
        rc \in {Len(data), MaxQueryRows}, cc \in {MaxRowLength(data), 0, MaxQueryCols}}
QueryGrids == UNION {QueryGridsOf(data) : data \in QueryData}
\* the worksheets that follow the queried one in a Spreadsheet
OtherSheets ==
    { <<>>,
      << Worksheet(<< "T" >>, << << PyStr(<< "x" >>), PyInt(0) >> >>, 1, 2).val >>,
      << Worksheet(<< "T" >>, << << PyStr(<<>>) >>, << PyBool(FALSE) >> >>, 2, 1).val >> }
Patterns == {<< "x" >>, << "0" >>, <<>>, << "^", "$" >>, << "a", "l" >>, << "^", "F" >>, << "(" >>}

InitQuery == call = Idle /\ sheet \in QueryGrids /\ book = NoBook

CallGetDataAsDict ==
    /\ call = Idle
    /\ UNCHANGED << sheet, book >>
    /\ \E headers_row \in 0..(MaxQueryRows + 1) :
        call' = [op |-> "get_data_as_dict", args |-> headers_row,
                 ret |-> get_data_as_dict(sheet, headers_row)]
CallFindCellsByPattern ==
    /\ call = Idle
    /\ UNCHANGED << sheet, book >>
    /\ \E pattern \in Patterns :
        call' = [op |-> "find_cells_by_pattern", args |-> pattern,
                 ret |-> find_cells_by_pattern(sheet, pattern)]
CallSpreadsheetFindCellsByPattern ==
    /\ call = Idle
    /\ UNCHANGED << sheet, book >>
    /\ \E pattern \in Patterns, others \in OtherSheets :
        call' = [op |-> "Spreadsheet.find_cells_by_pattern", args |-> pattern,
                 book |-> << sheet >> \o others,
                 ret |-> Spreadsheet_find_cells_by_pattern(
                             Spreadsheet(<< "T" >>, << sheet >> \o others, None).val,
                             pattern)]

\* the worksheets that follow the exported one: of its name and of another
ExportedOthers ==
    { <<>>,
      << Worksheet(<< "S" >>, << << PyStr(<< "x" >>) >>, << PyInt(0) >> >>, 2, 1).val >>,
      << Worksheet(<< "T" >>, << << PyStr(<< "x" >>) >>, << PyStr(<< "x" >>) >> >>, 2, 1).val >>,
      << Worksheet(<< "T" >>, << << PyStr(<< "x" >>) >>, << PyStr(<< "x" >>) >> >>, 2, 1).val,
         Worksheet(<< "S" >>, <<>>, 0, 0).val >> }
CallExportToDict ==
    /\ call = Idle
    /\ UNCHANGED << sheet, book >>
    /\ \E headers_row \in 1..2, others \in ExportedOthers :
        call' = [op |-> "export_to_dict", args |-> headers_row,
                 book |-> << sheet >> \o others,
                 ret |-> export_to_dict(
                             Spreadsheet(<< "T" >>, << sheet >> \o others, None).val,
                             headers_row)]

NextQuery ==
    \/ CallGetDataAsDict
    \/ CallFindCellsByPattern
    \/ CallSpreadsheetFindCellsByPattern
    \/ CallExportToDict
SpecQuery == InitQuery /\ [][NextQuery]_vars
\* ------------------------------------------------------ calls: the cleaner
CleanChars == {" ", "\r", "\n", "x", "1", "3", ",", "."}
\* reprs of floats: integer part, point, fraction without trailing zeros
FloatReprs ==
    {IntToStr(ip) \o << "." >> \o frac :
        ip \in {-1, 0, 1, 9, 10, 28, 31, 32},
        frac \in {<< "0" >>, << "1" >>, << "0", "1" >>, << "1", "2" >>, << "1", "3" >>, << "5" >>}}
        \cup {<< "1", "e", "+", "2", "0" >>, << "n", "a", "n" >>,
              << "1", ".", "5", "e", "-", "0", "7" >>}
\* texts with escapes: of a space, of a letter, of a carriage return, one of no
\* hexadecimal digits, one too short, and one beyond the last code point
Esc4(digits) == << "\\", "u" >> \o digits
Esc8(digits) == << "\\", "U" >> \o digits
EscapedTexts ==
    { Esc4(<< "0", "0", "2", "0" >>),
      Esc4(<< "0", "0", "2", "0" >>) \o Esc4(<< "0", "0", "2", "0" >>),
      << " " >> \o Esc4(<< "0", "0", "4", "1" >>) \o << " " >>,
      << "x" >> \o Esc4(<< "0", "0", "0", "d" >>) \o << "x" >>,
      Esc4(<< "0", "4", "1", "8" >>) \o << "x" >>,
      << "x" >> \o Esc4(<< "Z", "Z", "Z", "Z" >>),
      Esc4(<< "0", "0", "2" >>),
      Esc8(<< "0", "0", "0", "0", "0", "0", "4", "1" >>),
      Esc8(<< "0", "0", "1", "1", "0", "0", "0", "0" >>),
      Esc4(<< "0", "0", "4", "1" >>) \o Esc8(<< "0", "0", "1", "1", "0", "0", "0", "0" >>) }
\* texts of a day and a month written with a sign or with underscores
SignedTexts ==
    { << "+", "1", ",", "3" >>, << "1", ",", "+", "3" >>, << "-", "1", ",", "3" >>,
      << "+", "1", ".", "3" >>, << "1", "_", "0", ",", "3" >>, << "1", "_", ",", "3" >>,
      << "1", "_", "_", "0", ",", "3" >>, << "+", " ", "1", ",", "3" >>,
      << " ", "3", "1", " ", ",", "\n", "1", "2" >>, << "3", "2", ",", "1" >> }
CleanInputs ==
    {None, PyDatetime, PyBool(TRUE), PyBool(FALSE)}
        \cup {PyInt(k) : k \in {-1, 0, 1, 42}}
        \cup {PyFloat(0, r) : r \in FloatReprs}
        \cup {PyStr(s) : s \in SeqsOf(CleanChars, 0, MaxStrLen)}
        \cup {PyStr(s) : s \in EscapedTexts \cup SignedTexts}
Parsers ==
    {BaseParser(FALSE), BaseParser(TRUE), CSVParser(",", "\"", ""), XLSXParser(TRUE)}

CallCleanCellValue ==
    /\ call = Idle
    /\ UNCHANGED << sheet, book >>
    /\ \E self \in Parsers, value \in CleanInputs :
        call' = [op |-> "_clean_cell_value", args |-> [self |-> self, value |-> value],
                 ret |-> _clean_cell_value(self, value)]

CallCleanValue ==
    /\ call = Idle
    /\ UNCHANGED << sheet, book >>
    /\ \E value \in CleanInputs :
        call' = [op |-> "DataUtils.clean_value", args |-> [value |-> value],
                 ret |-> DataUtils_clean_value(value)]

CallRemoveEmptyColumnsOfData ==
    /\ call = Idle
    /\ UNCHANGED << sheet, book >>
    /\ \E data \in GridData :
        call' = [op |-> "DataUtils.remove_empty_columns", args |-> [data |-> data],
                 ret |-> Return(DataUtils_remove_empty_columns(data))]

NextCleaner ==
    \/ CallCleanCellValue
    \/ CallCleanValue
    \/ CallRemoveEmptyColumnsOfData
SpecCleaner == InitIdle /\ [][NextCleaner]_vars

\* --------------------------------------------------- calls: CSV normalizer
CsvBytes == {10, 13, 32, 34, 39, 44, 97, 255}
\* what chardet reports when the parser has no encoding of its own
DetectedEncodings == {"utf-8", "cp1251"}
CsvParsers == {CSVParser(",", q, "") : q \in {"\"", "'"}}
\* texts with fields in single quotes and backticks, with equal counts, and with
\* a quoted field on the fifth and on the sixth line
QuotedSamples ==
    { << 96, 96 >>, << 96, 97, 96 >>, << 39, 39, 44, 96, 96 >>, << 96, 96, 44, 39, 39 >>,
      << 34, 34, 44, 39, 39, 44, 39, 39 >>, << 39, 97, 39, 10, 96, 96, 44, 96, 96 >>,
      << 10, 10, 10, 10, 39, 39 >>, << 10, 10, 10, 10, 10, 39, 39 >> }

CallParse ==
    /\ call = Idle
    /\ UNCHANGED << sheet, book >>
    /\ \E self \in CsvParsers, data \in SeqsOf(CsvBytes, 0, MaxCsvLen) \cup QuotedSamples,
          detected \in DetectedEncodings :
        call' = [op |-> "CSVParser.parse",
                 args |-> [self |-> self, data |-> data, detected |-> detected],
                 ret |-> CSVParser_parse(self, data, << "S" >>,
                               IF self.encoding # "" THEN self.encoding ELSE detected)]

NextCsv == CallParse
SpecCsv == InitIdle /\ [][NextCsv]_vars

\* texts of up to MaxSampleLen bytes, and two that are no UTF-8
SampleBytes == {9, 10, 44, 59, 124}
Samples == SeqsOf(SampleBytes, 0, MaxSampleLen) \cup {<< 255 >>, << 59, 255 >>}

CallDetectDelimiter ==
    /\ call = Idle
    /\ UNCHANGED << sheet, book >>
    /\ \E self \in CsvParsers, data \in Samples, detected \in DetectedEncodings :
        call' = [op |-> "CSVParser.detect_delimiter",
                 args |-> [self |-> self, data |-> data, detected |-> detected],
                 ret |-> detect_delimiter(self, data,
                               IF self.encoding # "" THEN self.encoding ELSE detected)]

NextDialect == CallDetectDelimiter
SpecDialect == InitIdle /\ [][NextDialect]_vars
\* -------------------------------------------------- calls: XLSX normalizer
XlsxValues == {None, PyStr(<< "x" >>), PyInt(25), PyBool(TRUE)}
XlsxRows ==
    {rows \in SeqsOf(SeqsOf(XlsxValues, 0, MaxXlsxCols), 0, MaxXlsxRows) :
        TotalCells(rows) <= MaxXlsxCells}
SecondSheetRows == {<<>>, << << PyStr(<< "x" >>) >> >>, << << PyInt(25) >> >>}
XlsxSheet(title, rows, readable) == [title |-> title, rows |-> rows, readable |-> readable]
Workbooks ==
    {NotAWorkbook}
        \cup {Workbook(<< XlsxSheet(<< "S" >>, rows, TRUE) >>, 1) : rows \in XlsxRows}
        \cup {Workbook(<< XlsxSheet(<< "S" >>, rows, TRUE),
                          XlsxSheet(<< "T" >>, more, TRUE) >>, active) :
                 rows \in XlsxRows, more \in SecondSheetRows, active \in 1..2}
        \cup {Workbook(<< XlsxSheet(<< "S" >>, rows, FALSE) >>, 1) : rows \in SecondSheetRows}
        \cup {Workbook(<< XlsxSheet(<< "S" >>, rows, TRUE),
                          XlsxSheet(<< "T" >>, <<>>, FALSE) >>, active) :
                 rows \in SecondSheetRows, active \in 1..2}
\* a workbook whose sheetnames is the empty list
WorkbookWithoutSheets == Workbook(<<>>, 0)
RequestedNames == {<< "S" >>, << "T" >>, << "U" >>}
XlsxParsers == {XLSXParser(TRUE)}

CallXlsxParse ==
    /\ call = Idle
    /\ UNCHANGED << sheet, book >>
    /\ \E self \in XlsxParsers, workbook \in Workbooks, worksheet_name \in RequestedNames :
        call' = [op |-> "XLSXParser.parse",
                 args |-> [self |-> self, workbook |-> workbook,
                           worksheet_name |-> worksheet_name],
                 ret |-> XLSXParser_parse(self, workbook, worksheet_name)]

CallXlsxParseWorkbook ==
    /\ call = Idle
    /\ UNCHANGED << sheet, book >>
    /\ \E self \in XlsxParsers, workbook \in Workbooks \cup {WorkbookWithoutSheets} :
        call' = [op |-> "XLSXParser.parse_workbook",
                 args |-> [self |-> self, workbook |-> workbook],
                 ret |-> XLSXParser_parse_workbook(self, workbook)]

CallXlsxWorksheetNames ==
    /\ call = Idle
    /\ UNCHANGED << sheet, book >>
    /\ \E self \in XlsxParsers, workbook \in Workbooks :
        call' = [op |-> "XLSXParser.get_worksheet_names",
                 args |-> [self |-> self, workbook |-> workbook],
                 ret |-> XLSXParser_get_worksheet_names(self, workbook)]

NextXlsx == CallXlsxParse \/ CallXlsxParseWorkbook \/ CallXlsxWorksheetNames
SpecXlsx == InitIdle /\ [][NextXlsx]_vars

\* ----------------------------------- calls: normalizers building a Spreadsheet
\* the items of a data_dict: distinct names, one of them blank
MaxItems == 2
ItemData == {<<>>, << 97 >>, << 97, 44, 97, 10, 97 >>}
Items ==
    {[key |-> key, value |-> value, detected |-> detected] :
        key \in {<< "S" >>, << "T" >>, << " " >>}, value \in ItemData,
        detected \in DetectedEncodings}
DataDicts ==
    {d \in SeqsOf(Items, 0, MaxItems) :
        \A i, j \in DOMAIN d : i # j => d[i].key # d[j].key}

CallParseMultiple ==
    /\ call = Idle
    /\ UNCHANGED << sheet, book >>
    /\ \E self \in CsvParsers, data_dict \in DataDicts :
        call' = [op |-> "CSVParser.parse_multiple",
                 args |-> [self |-> self, data_dict |-> data_dict],
                 ret |-> CSVParser_parse_multiple(self, data_dict)]

NextBuild == CallParseMultiple \/ CallXlsxParseWorkbook
SpecBuild == InitIdle /\ [][NextBuild]_vars

\* ------------------------------------------------------------ calls: client
\* the requests one call can make: the workbook, the listing, the worksheets
MaxRequests == 4
Urls ==
    {[netloc |-> "docs.google.com", sheet_id |-> PyStr(<< "a" >>)],
     [netloc |-> "docs.google.com", sheet_id |-> None],
     [netloc |-> "example.com", sheet_id |-> PyStr(<< "a" >>)]}
\* a workbook that parses, one that is no workbook, one without sheets, and
\* one with a number in it
Answers ==
    {NoAnswer,
     Exported(Workbook(<< XlsxSheet(<< "W" >>, << << PyStr(<< "x" >>) >> >>, TRUE) >>, 1),
              << 97 >>, "utf-8"),
     Exported(NotAWorkbook, << 97, 44, 97, 10, 97 >>, "utf-8"),
     Exported(WorkbookWithoutSheets, <<>>, "cp1251"),
     Exported(Workbook(<< XlsxSheet(<< "W" >>, << << PyInt(25) >> >>, TRUE) >>, 1),
              << 34, 97 >>, "utf-8")}
\* the downloader of the source and downloaders that list what they are given
Downloaders ==
    {[lists |-> FALSE, listing |-> <<>>], [lists |-> TRUE, listing |-> <<>>],
     [lists |-> TRUE,
      listing |-> << [name |-> << "S" >>, gid |-> "0"], [name |-> << "T" >>, gid |-> "1"] >>],
     [lists |-> TRUE,
      listing |-> << [name |-> << "S" >>, gid |-> "0"], [name |-> << " " >>, gid |-> "1"],
                     [name |-> << "T" >>, gid |-> "2"] >>]}

CallLoadSpreadsheet ==
    /\ call = Idle
    /\ UNCHANGED << sheet, book >>
    /\ \E downloader \in Downloaders, url \in Urls, format_type \in {"xlsx", "csv"},
          net \in SeqsOf(Answers, MaxRequests, MaxRequests) :
        call' = [op |-> "load_spreadsheet",
                 args |-> [self |-> GSParseClient(downloader), url |-> url,
                           format_type |-> format_type, net |-> net],
                 ret |-> load_spreadsheet(GSParseClient(downloader), url, format_type, net)]

NextClient == CallLoadSpreadsheet
SpecClient == InitIdle /\ [][NextClient]_vars

\* ------------------------------------------------- claims: codec and Range
\* C2: the column codec is a bijection: a column number n >= 1 converted to
\* letters and parsed back gives n, and a non-empty string of letters A-Z
\* converted to a number and back gives the same string.
C2_ColumnCodecBijection ==
    /\ call.op = "_number_to_column_letter" =>
           /\ call.ret.back.ok
           /\ call.ret.back.val.col = call.args
    /\ call.op = "letters_to_number" =>
           /\ call.ret.parsed.ok
           /\ call.ret.back = call.args
C2_Witness ==
    /\ call.op = "_number_to_column_letter"
    /\ call.args = 703
    /\ call.ret.letters = << "A", "A", "A" >>
    /\ call.ret.back.ok

\* the Range of the round trip and what parsing its address gave
RoundTripHolds == call.ret.back = Return(call.args)
HasBang(name) == name.t = "str" /\ Contains(name.s, "!")

\* C3 (as claimed): Range.from_address(r.address) = r for every valid Range r,
\* with a worksheet name of any characters and without one.
C3_RoundTripAnyName == call.op = "address" => RoundTripHolds

\* C3 (amended): the round trip holds exactly when r has no worksheet name or
\* a non-empty one without '!'; an empty name comes back as no name, and a
\* name with '!' fails to parse or comes back as another Range.
C3_RoundTrip ==
    call.op = "address" =>
        (RoundTripHolds <=>
            \/ call.args.worksheet_name = None
            \/ Truthy(call.args.worksheet_name) /\ ~HasBang(call.args.worksheet_name))
C3_Witness ==
    /\ call.op = "address"
    /\ call.args.worksheet_name = PyStr(<< "S", ":" >>)
    /\ call.args.end_column = 703
    /\ call.args.end_row = 10
    /\ RoundTripHolds

\* C7: Range construction succeeds iff the four bounds are >= 1 and start <=
\* end on both axes, every violation is a validation error, and a single-cell
\* address that parses gives a Range whose start equals its end on both axes.
C7_RangeValidation ==
    /\ call.op = "Range" =>
           LET a == call.args
           IN  /\ call.ret.ok <=> /\ a[1] >= 1 /\ a[2] >= 1 /\ a[3] >= 1 /\ a[4] >= 1
                                  /\ a[1] <= a[2] /\ a[3] <= a[4]
               /\ ~call.ret.ok => call.ret.err = "ValueError"
    /\ (call.op = "from_address" /\ AddressParts(call.args).single) =>
           LET cell == _parse_cell_address(AddressParts(call.args).start_cell)
           IN  /\ call.ret.ok <=> (cell.ok /\ cell.val.row >= 1)
               /\ call.ret.ok =>
                      /\ call.ret.val.start_row = cell.val.row
                      /\ call.ret.val.end_row = cell.val.row
                      /\ call.ret.val.start_column = cell.val.col
                      /\ call.ret.val.end_column = cell.val.col
C7_Witness ==
    /\ call.op = "Range"
    /\ call.args = << 1, 1, 2, 1 >>
    /\ call.ret = Raise("ValueError", "Start column cannot be greater than end column")

\* s is one run of letters followed by one run of digits and nothing else
ExactCell(s) ==
    \E k \in 1..(Len(s) - 1) :
        /\ \A i \in 1..k : IsUpper(UpperChar(s[i]))
        /\ \A i \in (k + 1)..Len(s) : IsDigit(s[i])
\* s begins with a run of letters that a digit follows
CellPrefix(s) ==
    \E k \in 1..(Len(s) - 1) :
        /\ \A i \in 1..k : IsUpper(UpperChar(s[i]))
        /\ IsDigit(s[k + 1])
FormatError == Raise("ValueError", "Invalid cell address format")

\* C8 (as claimed): parsing a cell address fails with a format error whenever
\* the string is not exactly letters followed by digits, and from_address
\* rejects every address whose start or end cell has characters after the digits.
C8_ExactMatchOnly ==
    /\ (call.op = "_parse_cell_address" /\ ~ExactCell(call.args)) => call.ret = FormatError
    /\ (call.op = "from_address"
            /\ \/ ~ExactCell(AddressParts(call.args).start_cell)
               \/ ~ExactCell(AddressParts(call.args).end_cell)) => ~call.ret.ok

\* C8 (amended): parsing a cell address fails with a format error exactly
\* when the string does not begin with letters that a digit follows; what
\* comes after the digits is ignored, so from_address fails with a format
\* error exactly when its start or end cell has no such beginning.
C8_PrefixMatch ==
    /\ call.op = "_parse_cell_address" =>
           /\ call.ret.ok <=> CellPrefix(call.args)
           /\ ~call.ret.ok => call.ret = FormatError
    /\ call.op = "from_address" =>
           (call.ret = FormatError <=>
                \/ ~CellPrefix(AddressParts(call.args).start_cell)
                \/ ~CellPrefix(AddressParts(call.args).end_cell))
C8_Witness ==
    /\ call.op = "from_address"
    /\ ~ExactCell(AddressParts(call.args).end_cell)
    /\ call.ret.ok
\* ---------------------------------------- claims: Worksheet and Spreadsheet
\* C4: Worksheet.get_cell never raises, whatever the stored rows: it returns
\* None outside 1..row_count x 1..column_count and a Cell otherwise.
C4_GetCellNeverRaises ==
    call.op = "get_cell" =>
        /\ call.ret.ok
        /\ IF /\ call.args[1] \in 1..sheet.row_count
              /\ call.args[2] \in 1..sheet.column_count
           THEN /\ call.ret.val # None
                /\ call.ret.val.row = call.args[1]
                /\ call.ret.val.column = call.args[2]
           ELSE call.ret.val = None

\* C5: a Spreadsheet holds at least one worksheet in every reachable state:
\* construction with no worksheet fails with a validation error and no
\* add_worksheet / remove_worksheet sequence leaves it with none.
C5_AtLeastOneWorksheet ==
    /\ (call.op = "Spreadsheet" /\ call.args.worksheets = <<>>) =>
           (~call.ret.ok /\ call.ret.err = "ValueError")
    /\ book.constructed => Len(book.worksheets) >= 1

DistinctNames(worksheets) ==
    \A i, j \in DOMAIN worksheets : worksheets[i].name = worksheets[j].name => i = j
HasName(worksheets, name) == \E i \in DOMAIN worksheets : worksheets[i].name = name

\* C6: add_worksheet raises on a name that is already present and leaves the
\* list unchanged, otherwise it appends the worksheet at the end; so add and
\* remove steps keep pairwise distinct names pairwise distinct.
C6_AddRejectsCollision ==
    [][ /\ call'.op = "add_worksheet" =>
               IF HasName(book.worksheets, call'.args.name)
               THEN /\ ~call'.ret.ok
                    /\ call'.ret.err = "ValueError"
                    /\ book'.worksheets = book.worksheets
               ELSE /\ call'.ret.ok
                    /\ book'.worksheets = Append(book.worksheets, call'.args)
        /\ (book.constructed /\ DistinctNames(book.worksheets)) =>
               DistinctNames(book'.worksheets) ]_vars
C6_Witness ==
    /\ call.op = "add_worksheet"
    /\ ~call.ret.ok
    /\ Len(book.worksheets) = 2
    /\ DistinctNames(book.worksheets)

\* ------------------------------------------------------ claims: Value Cleaner
\* s without its leading and trailing whitespace
TrimmedForm(s) ==
    LET kept == {k \in DOMAIN s : s[k] \notin Whitespace}
    IN  IF kept = {} THEN <<>>
        ELSE SubSeq(s, CHOOSE k \in kept : \A m \in kept : k <= m,
                       CHOOSE k \in kept : \A m \in kept : m <= k)
\* s read once from the left, "\r\n" and every other "\r" written as "\n"
RECURSIVE UnifiedLineEndings(_)
UnifiedLineEndings(s) ==
    IF s = <<>> THEN <<>>
    ELSE IF Len(s) >= 2 /\ s[1] = "\r" /\ s[2] = "\n"
    THEN << "\n" >> \o UnifiedLineEndings(SubSeq(s, 3, Len(s)))
    ELSE IF s[1] = "\r" THEN << "\n" >> \o UnifiedLineEndings(Tail(s))
    ELSE << s[1] >> \o UnifiedLineEndings(Tail(s))
\* p is, between whitespace, a decimal number of 1..hi: digits, single
\* underscores between digits allowed, a plus sign in front allowed
NumberUpTo(p, hi) ==
    LET d == TrimmedForm(p)
        g == IF d # <<>> /\ Head(d) = "+" THEN Tail(d) ELSE d
    IN  /\ g # <<>>
        /\ IsDigit(Head(g)) /\ IsDigit(g[Len(g)])
        /\ \A k \in DOMAIN g : IsDigit(g[k]) \/ (g[k] = "_" /\ IsDigit(g[k + 1]))
        /\ DigitsToNat(SelectSeq(g, IsDigit), 0) \in 1..hi
\* s is a day 1..31, one comma, and a month 1..12
DayCommaMonth(s) ==
    \E i \in DOMAIN s :
        /\ s[i] = ","
        /\ \A k \in DOMAIN s : s[k] = "," => k = i
        /\ NumberUpTo(SubSeq(s, 1, i - 1), 31)
        /\ NumberUpTo(SubSeq(s, i + 1, Len(s)), 12)
CommaAsPeriod(s) == [k \in DOMAIN s |-> IF s[k] = "," THEN "." ELSE s[k]]
CleanedText(s) == UnifiedLineEndings(TrimmedForm(s))
PlainNumber(value) == IsIntOrFloat(value) /\ ~_is_potential_date_float(value)

C1_CsvRectangular ==
    (call.op = "CSVParser.parse" /\ call.ret.ok) =>
        LET ws == call.ret.val
            rows == call.ret.rows
        IN  /\ ws.row_count = Len(rows)
            /\ Len(ws.data) = Len(rows)
            /\ \A i \in DOMAIN rows : Len(rows[i]) <= ws.column_count
            /\ rows # <<>> => \E i \in DOMAIN rows : Len(rows[i]) = ws.column_count
            /\ rows = <<>> => ws.column_count = 0
            /\ \A i \in DOMAIN ws.data :
                   /\ Len(ws.data[i]) = ws.column_count
                   /\ \A j \in DOMAIN ws.data[i] :
                          IF j <= Len(rows[i])
                          THEN Return(ws.data[i][j])
                                   = _clean_cell_value(call.args.self, rows[i][j])
                          ELSE ws.data[i][j] = None
C1_Witness ==
    /\ call.op = "CSVParser.parse"
    /\ call.ret.ok
    /\ call.ret.val.row_count = 2
    /\ call.ret.val.column_count = 2
    /\ Len(call.ret.rows[1]) = 1
    /\ call.ret.val.data[1] = << PyStr(<< "a" >>), None >>

\* ---------------------------------------------------- claims: XLSX normalizer
\* C10: XLSXParser.parse and XLSXParser.parse_workbook succeed on a loadable
\* workbook whose rows hold integers and booleans next to strings: the result
\* has as many rows as the sheet and holds those values unchanged.
C10_XlsxKeepsNonStrings ==
    /\ (call.op = "XLSXParser.parse" /\ call.args.workbook.loadable) =>
           LET ws == SelectSheet(call.args.workbook, call.args.worksheet_name)
           IN  /\ call.ret.ok
               /\ call.ret.val.row_count = Len(ws.rows)
               /\ \A i \in DOMAIN ws.rows : \A j \in DOMAIN ws.rows[i] :
                      ws.rows[i][j].t \in {"int", "bool"} =>
                          call.ret.val.data[i][j] = ws.rows[i][j]
    /\ (call.op = "XLSXParser.parse_workbook" /\ call.args.workbook.loadable) =>
           /\ call.ret.ok
           /\ \A k \in DOMAIN call.args.workbook.sheets :
                  LET ws == call.args.workbook.sheets[k]
                  IN  /\ call.ret.val.worksheets[k].row_count = Len(ws.rows)
                      /\ \A i \in DOMAIN ws.rows : \A j \in DOMAIN ws.rows[i] :
                             ws.rows[i][j].t \in {"int", "bool"} =>
                                 call.ret.val.worksheets[k].data[i][j] = ws.rows[i][j]

XlsxOps == {"XLSXParser.parse", "XLSXParser.parse_workbook", "XLSXParser.get_worksheet_names"}

\* C11: in parse, parse_workbook and get_worksheet_names a workbook handle
\* that was opened is closed when the call finishes, on every exit path.
C11_HandleClosedOnExit ==
    (call.op \in XlsxOps /\ call.ret.opened) => call.ret.closed

\* C12: every failure of parse and parse_workbook, while opening the workbook
\* or while reading it, reaches the caller as one ValueError that carries the
\* underlying cause; get_worksheet_names never raises and returns the empty
\* list when the workbook cannot be opened.
C12_FailurePolicy ==
    /\ call.op \in {"XLSXParser.parse", "XLSXParser.parse_workbook"} =>
           /\ ~call.args.workbook.loadable =>
                  (~call.ret.ok /\ call.ret.cause = "InvalidFileException")
           /\ ~call.ret.ok =>
                  /\ call.ret.err = "ValueError"
                  /\ call.ret.cause \in {"InvalidFileException", "ParseError", "AttributeError",
                                         "ValueError"}
    /\ (call.op = "XLSXParser.parse" /\ call.args.workbook.loadable
            /\ ~SelectSheet(call.args.workbook, call.args.worksheet_name).readable) =>
           (~call.ret.ok /\ call.ret.cause = "ParseError")
    /\ (call.op = "XLSXParser.parse_workbook" /\ call.args.workbook.loadable
            /\ \E i \in DOMAIN call.args.workbook.sheets :
                   ~call.args.workbook.sheets[i].readable) => ~call.ret.ok
    /\ call.op = "XLSXParser.get_worksheet_names" =>
           /\ call.ret.ok
           /\ ~call.args.workbook.loadable => call.ret.val = <<>>
C12_Witness ==
    /\ call.op = "XLSXParser.parse_workbook"
    /\ Len(call.args.workbook.sheets) = 2
    /\ ~call.args.workbook.sheets[2].readable
    /\ call.ret.err = "ValueError"
    /\ call.ret.cause = "ParseError"

\* C13: parse reads the requested sheet when its name is a sheet name of the
\* workbook and the active sheet otherwise, without raising; the Worksheet it
\* returns has the title of the sheet read and as many rows as that sheet.
C13_SheetFallback ==
    (call.op = "XLSXParser.parse" /\ call.args.workbook.loadable) =>
        LET wb == call.args.workbook
            named == {i \in DOMAIN wb.sheets : wb.sheets[i].title = call.args.worksheet_name}
            read == IF named # {} THEN wb.sheets[CHOOSE i \in named : TRUE]
                    ELSE wb.sheets[wb.active]
        IN  read.readable =>
                /\ call.ret.ok
                /\ call.ret.val.name = read.title
                /\ call.ret.val.row_count = Len(read.rows)

\* -------------------------------------------------- claims: Worksheet cleanup
\* a cell that is null or a string of whitespace only
BlankCell(v) == v = None \/ (v.t = "str" /\ \A k \in DOMAIN v.s : v.s[k] \in Whitespace)
Widest(data) ==
    IF data = <<>> THEN 0
    ELSE CHOOSE w \in {Len(data[i]) : i \in DOMAIN data} : \A i \in DOMAIN data : Len(data[i]) <= w
\* the cell of data at (i, c), null where the row is too short
CellAt(data, i, c) == IF c <= Len(data[i]) THEN data[i][c] ELSE None
\* the k-th smallest member of a set of numbers
Nth(S, k) == CHOOSE x \in S : Cardinality({y \in S : y < x}) = k - 1
Rectangular(ws) ==
    /\ ws.row_count = Len(ws.data)
    /\ ws.column_count = Widest(ws.data)
    /\ \A i \in DOMAIN ws.data : Len(ws.data[i]) = ws.column_count
InplaceOps == {"remove_empty_rows_inplace", "remove_empty_columns_inplace", "clean_data_inplace"}

\* C14: after remove_empty_rows_inplace, remove_empty_columns_inplace or
\* clean_data_inplace on any Worksheet, row_count is len(data), column_count
\* is the greatest row length (0 without rows) and every row has column_count
\* entries.
C14_InplaceLeavesConsistent ==
    call.op \in InplaceOps => Rectangular(sheet)

\* C15: the Worksheet clean_data returns has no row and no column whose cells
\* are all null or blank, and its rows are exactly the receiver's non-empty
\* rows, in order, restricted to the receiver's non-empty columns, in order.
C15_CleanData ==
    call.op = "clean_data" =>
        LET data == sheet.data
            out == call.ret.val.data
            rows == {i \in DOMAIN data : \E c \in DOMAIN data[i] : ~BlankCell(data[i][c])}
            cols == {c \in 1..Widest(data) :
                        \E i \in DOMAIN data : ~BlankCell(CellAt(data, i, c))}
        IN  /\ Len(out) = Cardinality(rows)
            /\ \A k \in DOMAIN out :
                   /\ Len(out[k]) = Cardinality(cols)
                   /\ \A m \in DOMAIN out[k] :
                          out[k][m] = CellAt(data, Nth(rows, k), Nth(cols, m))
                   /\ \E m \in DOMAIN out[k] : ~BlankCell(out[k][m])
            /\ \A m \in 1..Widest(out) : \E k \in DOMAIN out : ~BlankCell(CellAt(out, k, m))
C15_Witness ==
    /\ call.op = "clean_data"
    /\ sheet.data = << << PyStr(<< " " >>), PyStr(<< "x" >>) >>, << None >> >>
    /\ call.ret.val.data = << << PyStr(<< "x" >>) >> >>

\* C26: each in-place operation leaves its Worksheet equal (name, data,
\* row_count, column_count) to the Worksheet the copying operation of the same
\* name returns for the Worksheet as it was before the call.
C26_InplaceMatchesCopy ==
    /\ call.op = "remove_empty_rows_inplace" => sheet = remove_empty_rows(call.self).val
    /\ call.op = "remove_empty_columns_inplace" =>
           sheet = remove_empty_columns(call.self).val
    /\ call.op = "clean_data_inplace" => sheet = clean_data(call.self).val
C26_Witness ==
    /\ call.op = "clean_data_inplace"
    /\ call.self.data = << << PyStr(<< " " >>), PyStr(<< "x" >>) >>, << None >> >>
    /\ sheet.data = << << PyStr(<< "x" >>) >> >>
    /\ sheet.row_count = 1 /\ sheet.column_count = 1

\* C29: clean_data is idempotent: cleaning the Worksheet that clean_data
\* returned returns an equal Worksheet (no row and no column of it is empty).
C29_CleanDataIdempotent ==
    call.op = "clean_data" => clean_data(call.ret.val).val = call.ret.val
\* a sheet declared without columns: its blank second column is removed
C29_Witness ==
    /\ call.op = "clean_data"
    /\ sheet.data = << << PyStr(<< "x" >>), PyStr(<< " " >>) >> >>
    /\ sheet.column_count = 0
    /\ call.ret.val.data = << << PyStr(<< "x" >>) >> >>
    /\ call.ret.val.column_count = 1

\* ------------------------------------------------------- claims: CSV dialect
DetectOps == {"CSVParser.detect_delimiter"}

\* the text a detect_delimiter call decoded
SampleText == decode(call.args.data, call.args.detected).val

\* the line (counted from 1) that position k of the text belongs to
LineOf(text, k) == 1 + Cardinality({m \in 1..(k - 1) : text[m] = "\n"})
\* a line with a character that is no whitespace
NonBlank(text, line) ==
    \E m \in DOMAIN text : LineOf(text, m) = line /\ text[m] \notin Whitespace
\* the non-blank lines before a line
NonBlankBefore(text, line) == Cardinality({l \in 1..(line - 1) : NonBlank(text, l)})

\* the occurrences of a delimiter in the first DelimiterSampleLines non-blank lines
TotalInNonBlankSample(text, d) ==
    Cardinality({k \in DOMAIN text :
        /\ text[k] = d
        /\ NonBlank(text, LineOf(text, k))
        /\ NonBlankBefore(text, LineOf(text, k)) < DelimiterSampleLines})
\* the occurrences in the non-blank lines among the first DelimiterSampleLines lines
TotalInLeadingLines(text, d) ==
    Cardinality({k \in DOMAIN text :
        /\ text[k] = d
        /\ NonBlank(text, LineOf(text, k))
        /\ LineOf(text, k) <= DelimiterSampleLines})

\* the candidate of the highest total, the earliest one among equals
IsEarliestHighest(i, total) ==
    /\ \A j \in DOMAIN total : total[j] <= total[i]
    /\ \A j \in 1..(i - 1) : total[j] < total[i]

\* C16: detect_delimiter samples the first 5 non-empty lines of the decoded
\* text, sums the occurrences of comma, semicolon, tab and pipe over them and
\* returns the candidate of the highest total, the earliest one on a tie.
C16_FirstNonEmptyLines ==
    (call.op \in DetectOps /\ call.ret.ok) =>
        \E i \in DOMAIN Delimiters :
            /\ call.ret.val = Delimiters[i]
            /\ IsEarliestHighest(i,
                   [j \in DOMAIN Delimiters |->
                       TotalInNonBlankSample(SampleText, Delimiters[j])])

\* C16 as the code has it: the sample is the first 5 lines of the decoded
\* text, the blank ones among them are skipped (and not replaced by later
\* lines), and the text is decoded once: bytes the encoding cannot decode
\* raise UnicodeDecodeError.
C16_LeadingLines ==
    call.op \in DetectOps =>
        IF decode(call.args.data, call.args.detected).ok
        THEN /\ call.ret.ok
             /\ \E i \in DOMAIN Delimiters :
                  /\ call.ret.val = Delimiters[i]
                  /\ IsEarliestHighest(i,
                         [j \in DOMAIN Delimiters |->
                             TotalInLeadingLines(SampleText, Delimiters[j])])
        ELSE ~call.ret.ok /\ call.ret.err = "UnicodeDecodeError"

\* five blank lines and then a line of one semicolon: the comma is returned
C16_Witness ==
    /\ call.op \in DetectOps
    /\ call.args.data = << 10, 10, 10, 10, 10, 59 >>
    /\ call.ret = Return(",")


QuoteChars == << "\"", "'", Backtick >>

\* the text a parse call decoded, and the first QuoteSampleLines lines of it
ParsedText == DecodeText(call.args.data, call.args.detected).val
SampledLines == FirstItems(split(ParsedText, "\n"), QuoteSampleLines)

\* a trimmed field that begins and ends with q (two characters at least)
IsWrapped(field, q) ==
    Len(strip(field)) >= 2 /\ Head(strip(field)) = q /\ strip(field)[Len(strip(field))] = q
\* the fields of the sample that q wraps, as (line, field) positions
WrappedFields(q) ==
    {p \in (DOMAIN SampledLines) \X (1..(Len(ParsedText) + 1)) :
        /\ p[2] <= Len(split(SampledLines[p[1]], call.args.self.delimiter))
        /\ IsWrapped(split(SampledLines[p[1]], call.args.self.delimiter)[p[2]], q)}

\* the quote character of the claim: the configured one unless that is the
\* double quote, else the candidate that wraps the most fields
IsClaimedQuote(q) ==
    IF call.args.self.quotechar # "\"" THEN q = call.args.self.quotechar
    ELSE IF \A i \in DOMAIN QuoteChars : WrappedFields(QuoteChars[i]) = {} THEN q = "\""
    ELSE \E i \in DOMAIN QuoteChars :
            /\ q = QuoteChars[i]
            /\ IsEarliestHighest(i,
                   [j \in DOMAIN QuoteChars |-> Cardinality(WrappedFields(QuoteChars[j]))])

\* C17: parse tokenizes with the configured quote character when that is not
\* the double quote; when it is, with the candidate among double quote, single
\* quote and backtick that wraps the most delimiter-separated trimmed fields
\* of the sample (the first 5 lines; the earliest candidate among equals), and
\* with the double quote when no field is wrapped.
C17_QuoteCharUsed ==
    (call.op = "CSVParser.parse" /\ call.ret.ok) =>
        /\ IsClaimedQuote(call.ret.quotechar)
        /\ call.ret.rows = csv_reader(ParsedText, call.args.self.delimiter,
                                      call.ret.quotechar).val

\* 'a' read by a parser of the default quote character: one field a
C17_Witness ==
    /\ call.op = "CSVParser.parse"
    /\ call.args.self.quotechar = "\""
    /\ call.args.data = << 39, 97, 39 >>
    /\ call.ret.ok
    /\ call.ret.quotechar = "'"
    /\ call.ret.rows = << << PyStr(<< "a" >>) >> >>


\* ------------------------------------------------- claims: Worksheet queries
\* the value stored at a coordinate, None where the stored rows do not reach
StoredValue(ws, r, c) ==
    IF r \in DOMAIN ws.data /\ c \in DOMAIN ws.data[r] THEN ws.data[r][c] ELSE None
\* a row with a cell, among the declared columns, that is not blank
HasHeader(ws, r) == \E c \in 1..ws.column_count : ~IsBlank(StoredValue(ws, r, c))

\* C18: get_data_as_dict(headers_row) returns an empty list whenever
\* headers_row is outside 1..row_count or the header row has no non-empty
\* cell; otherwise it returns one mapping per row after the header row, in
\* row order: row_count - headers_row mappings, the k-th of values of the
\* k-th row after the header row.
C18_DictRows ==
    call.op = "get_data_as_dict" =>
        /\ call.ret.ok
        /\ IF call.args \notin 1..sheet.row_count \/ ~HasHeader(sheet, call.args)
           THEN call.ret.val = <<>>
           ELSE /\ Len(call.ret.val) = sheet.row_count - call.args
                /\ \A k \in DOMAIN call.ret.val : \A i \in DOMAIN call.ret.val[k] :
                     \E c \in 1..sheet.column_count :
                        call.ret.val[k][i].value = StoredValue(sheet, call.args + k, c)


\* C27: in every mapping get_data_as_dict returns, the value under the header
\* taken from column c is the value of that data row at column c, for every
\* column c whose header cell is not empty, also when an empty header cell
\* lies to the left of c.
C27_ValueOfHeaderColumn ==
    (call.op = "get_data_as_dict" /\ call.ret.ok) =>
        \A k \in DOMAIN call.ret.val : \A c \in 1..sheet.column_count :
            ~IsBlank(StoredValue(sheet, call.args, c)) =>
                \E i \in DOMAIN call.ret.val[k] :
                    /\ call.ret.val[k][i].key = StoredValue(sheet, call.args, c)
                    /\ call.ret.val[k][i].value = StoredValue(sheet, call.args + k, c)

\* C28: for every Spreadsheet, duplicate worksheet names included, and every
\* worksheet name n in it, export_to_dict(h)[n] equals
\* get_worksheet(n).get_data_as_dict(h), get_worksheet returning the first
\* worksheet named n.
C28_ExportOfFirstNamed ==
    (call.op = "export_to_dict" /\ call.ret.ok) =>
        \A w \in DOMAIN call.book :
            \E i \in DOMAIN call.ret.val :
                /\ call.ret.val[i].key = PyStr(call.book[w].name)
                /\ call.ret.val[i].value =
                       get_data_as_dict(
                           call.book[CHOOSE f \in DOMAIN call.book :
                                        /\ call.book[f].name = call.book[w].name
                                        /\ \A e \in 1..(f - 1) :
                                               call.book[e].name # call.book[w].name],
                           call.args).val

FindOps == {"find_cells_by_pattern", "Spreadsheet.find_cells_by_pattern"}
\* the worksheets a search call went through
SearchedSheets ==
    IF call.op = "Spreadsheet.find_cells_by_pattern" THEN call.book ELSE << sheet >>
\* the cells of a worksheet whose value is non-null and whose string form
\* contains a match, as (row, column) positions
Matching(ws, compiled) ==
    {p \in (DOMAIN ws.data) \X (1..Widest(ws.data)) :
        /\ p[2] <= Len(ws.data[p[1]])
        /\ ws.data[p[1]][p[2]] # None
        /\ search(compiled, str(ws.data[p[1]][p[2]]))}
\* the result, cut into one run of cells per worksheet: run[k] cells of sheet k
RECURSIVE RunsMatch(_, _, _)
RunsMatch(cells, sheets, compiled) ==
    IF sheets = <<>> THEN cells = <<>>
    ELSE LET n == Cardinality(Matching(Head(sheets), compiled))
         IN  /\ n <= Len(cells)
             /\ {<< cells[i].row, cells[i].column >> : i \in 1..n}
                    = Matching(Head(sheets), compiled)
             /\ \A i \in 1..n :
                    cells[i].value = Head(sheets).data[cells[i].row][cells[i].column]
             /\ RunsMatch(SubSeq(cells, n + 1, Len(cells)), Tail(sheets), compiled)

\* C19: find_cells_by_pattern, on a Worksheet and (concatenated in worksheet
\* order) on a Spreadsheet, returns exactly the cells whose value is non-null
\* and whose string form contains a match of the regular expression; 0, False
\* and the empty string are tested like any other value.
C19_NonNullTested ==
    (call.op \in FindOps /\ re_compile(call.args).ok) =>
        /\ call.ret.ok
        /\ RunsMatch(call.ret.val, SearchedSheets, re_compile(call.args).val)


\* ------------------------------------------------ claims: escapes in the cleaner
\* the parsers whose normalizers clean every cell
NormalizerParsers == {CSVParser(",", "\"", ""), XLSXParser(TRUE)}
\* a text with a well-formed escape
HasEscape(text) == \E i \in DOMAIN text : EscapeAt(text, i) > 0

\* C20: the cleaner that the CSV and workbook normalizers apply to every cell
\* decodes each well-formed \uXXXX / \UXXXXXXXX escape of a string
\* independently and before trimming (a string of escaped spaces cleans to
\* null), leaves an escape that cannot be decoded verbatim, and never raises:
\* cleaning a string gives what cleaning its decoded text gives.
C20_EscapesDecoded ==
    (/\ call.op = "_clean_cell_value"
     /\ call.args.self \in NormalizerParsers
     /\ call.args.value.t = "str") =>
        /\ call.ret.ok
        /\ call.ret = _clean_cell_value(call.args.self,
                          PyStr(_decode_unicode_escapes(call.args.value.s)))


\* ------------------------------------ claims: construction errors in normalizers
\* the messages of the validation errors of Worksheet and Spreadsheet
ValidationMessages ==
    {"Worksheet name cannot be empty", "Row and column counts must be non-negative",
     "Spreadsheet title cannot be empty", "Spreadsheet must contain at least one worksheet"}
\* parse_multiple on an empty map or with a blank worksheet name
MultipleCannotBuild ==
    /\ call.op = "CSVParser.parse_multiple"
    /\ \/ call.args.data_dict = <<>>
       \/ \E i \in DOMAIN call.args.data_dict : strip(call.args.data_dict[i].key) = <<>>
\* parse_workbook on a workbook that loads and has no sheets
WorkbookCannotBuild ==
    /\ call.op = "XLSXParser.parse_workbook"
    /\ call.args.workbook.loadable
    /\ call.args.workbook.sheets = <<>>

\* C22 as stated: a validation error raised while a normalizer constructs a
\* Worksheet or Spreadsheet (parse_workbook on a workbook with zero sheets,
\* parse_multiple on an empty map) is not caught by the normalizer and reaches
\* the caller as that validation error, not re-wrapped as a parse failure.
C22_NeverRewrapped ==
    (MultipleCannotBuild \/ WorkbookCannotBuild) =>
        /\ ~call.ret.ok
        /\ call.ret.err = "ValueError"
        /\ call.ret.msg \in ValidationMessages

\* C22, amended: CSVParser.parse_multiple lets the validation error through as
\* it is (the empty map gives the Spreadsheet's error, a blank name the
\* Worksheet's); XLSXParser.parse_workbook builds the Spreadsheet inside its try
\* block, so the validation error of a workbook with zero sheets is caught and
\* raised again as the ValueError "Failed to parse XLSX workbook: ..." whose
\* cause is the validation error, the workbook having been closed.
C22_RewrappedByXlsxOnly ==
    /\ MultipleCannotBuild =>
          /\ ~call.ret.ok
          /\ call.ret.err = "ValueError"
          /\ call.ret.msg = IF call.args.data_dict = <<>>
                            THEN "Spreadsheet must contain at least one worksheet"
                            ELSE "Worksheet name cannot be empty"
    /\ WorkbookCannotBuild =>
          /\ ~call.ret.ok
          /\ call.ret.err = "ValueError"
          /\ call.ret.msg = "Failed to parse XLSX workbook"
          /\ call.ret.cause = "ValueError"
          /\ call.ret.closed
C22_Witness ==
    /\ WorkbookCannotBuild
    /\ ~call.ret.ok
    /\ call.ret.msg = "Failed to parse XLSX workbook"
\* ------------------------------------------------ claims: columns of a grid
\* C25: DataUtils.remove_empty_columns of a non-empty grid whose every column
\* is empty (all cells null or blank) returns an empty list, with no
\* zero-length rows left in it.
C25_AllEmptyGivesEmptyList ==
    (/\ call.op = "DataUtils.remove_empty_columns"
     /\ call.args.data # <<>>
     /\ \A i \in DOMAIN call.args.data :
            \A j \in DOMAIN call.args.data[i] : IsBlank(call.args.data[i][j]))
        => call.ret.val = <<>>

\* ------------------------------------------- claims: day and month heuristics
AllDigits(p) == p # <<>> /\ \A k \in DOMAIN p : IsDigit(p[k])
\* the position of the point of a text D.F: digits, one point, digits, with D
\* in 1..31 and F, read as an integer, in 1..12; 0 for any other text
DayPointAt(text) ==
    IF \E i \in DOMAIN text :
          /\ text[i] = "."
          /\ AllDigits(SubSeq(text, 1, i - 1))
          /\ AllDigits(SubSeq(text, i + 1, Len(text)))
          /\ DigitsToNat(SubSeq(text, 1, i - 1), 0) \in 1..31
          /\ DigitsToNat(SubSeq(text, i + 1, Len(text)), 0) \in 1..12
    THEN CHOOSE i \in DOMAIN text : text[i] = "."
    ELSE 0
\* D.10 when F is the single digit 1 and D is in 1..9 or at least 28, else D.F
WithLostZero(text) ==
    LET i == DayPointAt(text)
        D == DigitsToNat(SubSeq(text, 1, i - 1), 0)
    IN  IF SubSeq(text, i + 1, Len(text)) = << "1" >> /\ (D \in 1..9 \/ D >= 28)
        THEN SubSeq(text, 1, i) \o << "1", "0" >>
        ELSE text

\* C23: for a number whose decimal text is D.F with 1 <= D <= 31 and F, read
\* as an integer, in 1..12, the cleaner returns the string D.10 when F is
\* exactly the digit 1 and D is in 1..9 or D >= 28, and the string D.F with
\* the digits of F unchanged otherwise; any other number is returned unchanged.
C23_LostZeroOnly ==
    (call.op = "_clean_cell_value" /\ call.args.value.t \in {"int", "float"}) =>
        call.ret = Return(IF DayPointAt(str(call.args.value)) # 0
                          THEN PyStr(WithLostZero(str(call.args.value)))
                          ELSE call.args.value)


\* s is digits of a day 1..31, one comma, digits of a month 1..12
DigitsCommaDigits(s) ==
    \E i \in DOMAIN s :
        /\ s[i] = ","
        /\ AllDigits(SubSeq(s, 1, i - 1)) /\ AllDigits(SubSeq(s, i + 1, Len(s)))
        /\ DigitsToNat(SubSeq(s, 1, i - 1), 0) \in 1..31
        /\ DigitsToNat(SubSeq(s, i + 1, Len(s)), 0) \in 1..12

\* the strings the cleaner does not turn into null
CleansToText ==
    /\ call.op = "_clean_cell_value"
    /\ call.args.value.t = "str"
    /\ CleanedText(call.args.value.s) # <<>>

\* C24: a cleaned string of the form D,M with day in 1..31 and month in 1..12
\* is returned with the comma replaced by a period; a string D.M and every
\* string not of the day and month shape is returned as cleaned (trimmed,
\* line endings unified).
C24_DigitsOnly ==
    CleansToText =>
        call.ret = Return(PyStr(IF DigitsCommaDigits(CleanedText(call.args.value.s))
                                THEN CommaAsPeriod(CleanedText(call.args.value.s))
                                ELSE CleanedText(call.args.value.s)))

\* C24 as the code has it: D and M are what int() reads as a number: each may
\* stand between whitespace, carry a plus sign and hold single underscores
\* between its digits; the comma of such a string becomes a period and the
\* rest of the text, the whitespace included, is kept.
C24_AsIntReads ==
    CleansToText =>
        call.ret = Return(PyStr(IF DayCommaMonth(CleanedText(call.args.value.s))
                                THEN CommaAsPeriod(CleanedText(call.args.value.s))
                                ELSE CleanedText(call.args.value.s)))

\* "1 ,3" is cleaned to "1 .3"
C24_Witness ==
    /\ call.op = "_clean_cell_value"
    /\ call.args.value = PyStr(<< "1", " ", ",", "3" >>)
    /\ call.ret = Return(PyStr(<< "1", " ", ".", "3" >>))

\* ------------------------------------------------------------ claims: client
IsLoad == call.op = "load_spreadsheet"
ValidUrl == is_google_sheets_url(call.args.url)
\* the workbook of the first answer is downloaded and parsed
WorkbookLoads ==
    /\ call.args.net[1].ok
    /\ XLSXParser_parse_workbook(call.args.self.xlsx_parser, call.args.net[1].workbook).ok
\* the CSV path is taken: asked for, or after the xlsx format failed
OnCsvPath == IsLoad /\ ValidUrl /\ (call.args.format_type = "xlsx" => ~WorkbookLoads)
\* the first request of the CSV path
CsvStart == IF call.args.format_type = "xlsx" THEN 2 ELSE 1
\* what the listing gives, and the request that asks for its first worksheet
Listed ==
    IF call.args.self.downloader.lists THEN call.args.self.downloader.listing
    ELSE IF call.args.net[CsvStart].ok THEN SourceListing ELSE <<>>
FirstSheetRequest == IF call.args.self.downloader.lists THEN CsvStart ELSE CsvStart + 1
OneByOne == OnCsvPath /\ Listed # <<>>
AnswerFor(i) == call.args.net[FirstSheetRequest + i - 1]
ParsedSheet(i) ==
    CSVParser_parse(call.args.self.csv_parser, AnswerFor(i).data, Listed[i].name,
                    AnswerFor(i).detected)
\* the i-th listed worksheet is downloaded and parsed
SheetLoads(i) == AnswerFor(i).ok /\ ParsedSheet(i).ok
LoadedUpTo(i) == Cardinality({j \in 1..i : SheetLoads(j)})

\* C21: when load_spreadsheet loads the worksheets one by one over the CSV
\* path, a worksheet that fails to download or parse is skipped and the others
\* are still loaded; the call fails only if no worksheet was loaded, and a
\* returned Spreadsheet holds exactly the worksheets that loaded, in listing
\* order.
C21_PartialLoad ==
    OneByOne =>
        /\ call.ret.ok <=> \E i \in DOMAIN Listed : SheetLoads(i)
        /\ ~call.ret.ok =>
               (call.ret.err = "Exception" /\ call.ret.msg = "Failed to load any worksheets")
        /\ call.ret.ok =>
               /\ Len(call.ret.val.worksheets) = LoadedUpTo(Len(Listed))
               /\ \A i \in DOMAIN Listed :
                      SheetLoads(i) =>
                          call.ret.val.worksheets[LoadedUpTo(i)] = ParsedSheet(i).val
C21_Witness ==
    /\ OneByOne
    /\ Len(Listed) = 3
    /\ SheetLoads(1) /\ ~AnswerFor(2).ok /\ SheetLoads(3)
    /\ call.ret.ok
    /\ Len(call.ret.val.worksheets) = 2
    /\ call.ret.val.worksheets[2].name = Listed[3].name

\* C30: load_spreadsheet with format 'xlsx' on a valid URL never surfaces a
\* failure of the XLSX download or of the workbook parse: it goes on as the CSV
\* format does with the requests that follow, and fails only if that fails;
\* every Spreadsheet returned, from either path, has the requested url and at
\* least one worksheet; for an invalid URL it raises with no request made.
C30_XlsxFallsBackToCsv ==
    IsLoad =>
        /\ ~ValidUrl =>
               (~call.ret.ok /\ call.ret.err = "ValueError" /\ call.ret.requests = 0)
        /\ (ValidUrl /\ call.args.format_type = "xlsx" /\ WorkbookLoads) =>
               (call.ret.ok /\ call.ret.requests = 1)
        /\ (ValidUrl /\ call.args.format_type = "xlsx" /\ ~WorkbookLoads) =>
               LET csv == load_spreadsheet(call.args.self, call.args.url, "csv",
                                           Tail(call.args.net) \o << NoAnswer >>)
               IN  /\ call.ret.ok = csv.ok
                   /\ call.ret.requests = csv.requests + 1
                   /\ call.ret.ok => call.ret.val = csv.val
                   /\ ~call.ret.ok => (call.ret.err = csv.err /\ call.ret.msg = csv.msg)
        /\ call.ret.ok =>
               /\ call.ret.val.url = call.args.url
               /\ call.ret.val.worksheets # <<>>
C30_Witness ==
    /\ IsLoad /\ ValidUrl
    /\ call.args.format_type = "xlsx"
    /\ call.args.net[1].ok /\ ~WorkbookLoads
    /\ call.ret.ok
    /\ call.ret.requests > 1

====
